---------------------------- MODULE Spec2Model ----------------------------
(***************************************************************************)
(* A model of src/oraclepatchdownloader.py (class OraclePatchDownloader).  *)
(*                                                                         *)
(* The module holds one state space and five specifications over it, one  *)
(* per part of the program:                                                *)
(*   Spec          initialize_downloader: the logon redirect chain, the    *)
(*                 catalog cache policy and the building of the indices    *)
(*   SpecDownload  __download_link, the verified downloader                *)
(*   SpecIndex     __process_patch_recommendations_file, the streaming     *)
(*                 indexer of patch_recommendations.xml                    *)
(*   SpecLedger    __remove_duplicate_lines_desc_files                     *)
(*   SpecNormalize __normalize_directory_name                              *)
(* A specification leaves the variables of the other parts at their       *)
(* initial values.                                                         *)
(***************************************************************************)
EXTENDS Integers, Sequences, FiniteSets, TLC

VARIABLES
    \* ---- initialize_downloader / __logon_oracle_support
    pc,                  \* position inside initialize_downloader
    cookie_jar,          \* self.__cookie_jar: <<>> is None, <<jar>> a jar
    status_code,         \* local status_code of __logon_oracle_support
    login_response,      \* cookies of the local login_response
    hops,                \* history: the cookies set by each response, in order
    fatal_logged,        \* history: logging.fatal calls of this logon
    ops,                 \* history: the steps of the current call, in order
    outcome,             \* how the last initialize_downloader call ended
    total_downloaded_bytes, \* its return value
    download_from_file,  \* its argument
    now,                 \* time.time()
    catfile,             \* target_dir/em_catalog.zip: <<>> or <<[mtime, ver]>>
    catfile_before,      \* history: em_catalog.zip when the current call began
    em_catalog,          \* target_dir/em_catalog: <<>> or <<ver>>
    server_ver,          \* the catalog the download endpoint serves
    all_platforms,       \* self.__all_platforms: <<>> is None, else <<ver>>
    db_release_components, \* self.__db_release_components, likewise
    recommended_db_patches, \* self.__recommended_db_patches, likewise
    \* ---- __download_link
    dl_pc,               \* position inside __download_link
    dl_args,             \* url, oracle_file_checksum, progress_function, dry_run_mode
    resp_dl,             \* the response: content-length header and body
    target_file,         \* the destination file: <<>> absent, else <<content>>
    total_dl,            \* local total_dl
    chunks_read,         \* history: chunks taken from resp_dl.iter_content
    opened_wb,           \* history: the file was opened "wb" in this call
    progress_calls,      \* history: the calls of progress_function
    file_before,         \* history: the destination file when the call began
    dl_result,           \* how the call ended, and its return value
    \* ---- __process_patch_recommendations_file
    ix_pc,               \* "parsing", "done" or "error"
    path_counter,        \* the Counter of open sections
    open_tags,           \* the parser's stack of open section elements
    idx_all_db_patches,  \* self.__all_db_patches while indexing
    idx_recommended,     \* self.__recommended_db_patches while indexing
    events,              \* number of elements the parser has delivered
    listed,              \* history: <<section, cid, platform, uid>> of every patch
                         \* child of a release closed in a recommendations section
    seen_patch_platforms, \* history: platforms of the patch elements closed in a patches section
    wanted_platforms,    \* self.wanted_platforms, the constructor's argument
    \* ---- __remove_duplicate_lines_desc_files
    ledger,              \* the content of one description.txt
    ledger_before,       \* history: its content before the first pass
    ledger_first,        \* history: its content after the first pass
    passes,              \* number of passes made over it
    run_lines,           \* the lines one orchestrator run prints to the ledger
    \* ---- __normalize_directory_name
    orig_name,           \* the argument
    normalized_name,     \* the result
    norm_done,           \* whether the function has returned
    \* ---- the session: the public operations on one downloader
    authenticated,       \* history: a logon of this downloader ended in 200
    sent,                \* history: <<kind, authenticated>> of every request a
                         \* download operation sent
    consulted,           \* history: <<index, value>> of every index
                         \* download_oracle_quarter_patches read
    \* ---- the batch loops of the download operations
    b_pc,                \* "idle", "entries", "patches", "files", "done"
    b_args,              \* the operation and its arguments
    b_entries,           \* the keys of the recommendation index still to visit
    b_key,               \* the key being visited, <<>> outside an entry
    b_uids,              \* the uids of its entry still to visit
    b_files,             \* the files still to fetch, of the patch or the list
    attempts,            \* history: the calls of __download_link, in order,
                         \* each with its outcome
    desc_lines,          \* history: the lines printed to description files
    dirs,                \* history: the keys whose destination directory
                         \* was created
    b_total,             \* total_downloaded_bytes / bytes_downloaded
    b_result,            \* how the operation ended
    \* ---- get_patch_info
    info_args,           \* the response of the search request, platform, version
    info_result          \* how the call ended, and the list it returned

initVars == <<pc, cookie_jar, status_code, login_response, hops, fatal_logged,
              ops, outcome, total_downloaded_bytes, download_from_file, now,
              catfile, catfile_before, em_catalog, server_ver, all_platforms,
              db_release_components, recommended_db_patches>>
dlVars == <<dl_pc, dl_args, resp_dl, target_file, total_dl, chunks_read,
            opened_wb, progress_calls, file_before, dl_result>>
ixVars == <<ix_pc, path_counter, open_tags, idx_all_db_patches,
            idx_recommended, events, listed, seen_patch_platforms,
            wanted_platforms>>
ledgerVars == <<ledger, ledger_before, ledger_first, passes, run_lines>>
normVars == <<orig_name, normalized_name, norm_done>>
sessVars == <<authenticated, sent, consulted>>
batchVars == <<b_pc, b_args, b_entries, b_key, b_uids, b_files, attempts,
               desc_lines, dirs, b_total, b_result>>
infoVars == <<info_args, info_result>>
vars == <<initVars, dlVars, ixVars, ledgerVars, normVars, sessVars, batchVars,
          infoVars>>

\* Python's None, and an optional value as a sequence of length 0 or 1.
None == <<>>
Some(x) == <<x>>

\* A dict without keys.
EmptyDict == <<>>

\* The section elements of patch_recommendations.xml that path_counter counts.
Sections == {"patches", "standalone_recommendations", "components_recommendations"}

(***************************************************************************)
(* Sequences of characters.                                                *)
(***************************************************************************)
RECURSIVE SeqsUpTo(_, _)
SeqsUpTo(S, n) ==
    IF n = 0 THEN {<<>>}
    ELSE LET shorter == SeqsUpTo(S, n - 1)
         IN shorter \cup {Append(s, c) : s \in {t \in shorter : Len(t) = n - 1}, c \in S}

Front(s) == SubSeq(s, 1, Len(s) - 1)

(***************************************************************************)
(* __normalize_directory_name (src lines 1033-1048).  A name is a sequence *)
(* of one-character strings.                                               *)
(***************************************************************************)
\* The characters the class [^a-zA-Z0-9_.-] does not match.
AllowedChars ==
    {"a", "b", "c", "d", "e", "f", "g", "h", "i", "j", "k", "l", "m", "n",
     "o", "p", "q", "r", "s", "t", "u", "v", "w", "x", "y", "z", "A", "B",
     "C", "D", "E", "F", "G", "H", "I", "J", "K", "L", "M", "N", "O", "P",
     "Q", "R", "S", "T", "U", "V", "W", "X", "Y", "Z", "0", "1", "2", "3",
     "4", "5", "6", "7", "8", "9", "_", ".", "-"}

\* A mutant of the first substitution: the pattern without its +, so that
\* every character outside the class becomes an underscore of its own.
SubDisallowedChars(s) ==
    [i \in 1..Len(s) |-> IF s[i] \in AllowedChars THEN s[i] ELSE "_"]

\* re.sub("[^a-zA-Z0-9_.-]+", "_", s): scanning from the left, each maximal
\* run of characters outside the class becomes one underscore.
RECURSIVE SubDisallowedRuns(_)
SubDisallowedRuns(s) ==
    IF s = <<>> THEN <<>>
    ELSE IF Head(s) \in AllowedChars THEN <<Head(s)>> \o SubDisallowedRuns(Tail(s))
    ELSE LET RECURSIVE SkipRun(_)
             SkipRun(t) == IF t # <<>> /\ Head(t) \notin AllowedChars
                           THEN SkipRun(Tail(t)) ELSE t
         IN <<"_">> \o SubDisallowedRuns(SkipRun(s))

\* re.sub("_$", "", s): the name holds no line break after the first
\* substitution, so $ matches at the end only.
SubTrailingUnderscore(s) ==
    IF s # <<>> /\ s[Len(s)] = "_" THEN Front(s) ELSE s

\* re.sub("^_", "", s)
SubLeadingUnderscore(s) ==
    IF s # <<>> /\ Head(s) = "_" THEN Tail(s) ELSE s

NormalizeDirectoryName(name) ==
    SubLeadingUnderscore(SubTrailingUnderscore(SubDisallowedRuns(name)))

\* The platform name of the specification's example, and its directory name.
ExampleName ==
    <<"L", "i", "n", "u", "x", " ", "x", "8", "6", "-", "6", "4", " ", "(",
      "6", "4", "-", "b", "i", "t", ")">>
ExampleDir ==
    <<"L", "i", "n", "u", "x", "_", "x", "8", "6", "-", "6", "4", "_", "6",
      "4", "-", "b", "i", "t">>

\* Names the model normalizes: every name of up to MaxNameLen characters over
\* a letter, the underscore and two characters outside the class, and the
\* example.
MaxNameLen == 4
NameChars == {"a", "_", " ", "("}
Names == SeqsUpTo(NameChars, MaxNameLen) \cup {ExampleName}

InitNormalize ==
    /\ pc = "idle"
    /\ cookie_jar = None
    /\ status_code = 0
    /\ login_response = <<>>
    /\ hops = <<>>
    /\ fatal_logged = 0
    /\ ops = <<>>
    /\ outcome = "none"
    /\ total_downloaded_bytes = 0
    /\ download_from_file = FALSE
    /\ now = 0
    /\ catfile = None
    /\ catfile_before = None
    /\ em_catalog = None
    /\ server_ver = 1
    /\ all_platforms = None
    /\ db_release_components = None
    /\ recommended_db_patches = None
    /\ dl_pc = "idle"
    /\ dl_args = <<>>
    /\ resp_dl = <<>>
    /\ target_file = None
    /\ total_dl = 0
    /\ chunks_read = 0
    /\ opened_wb = FALSE
    /\ progress_calls = <<>>
    /\ file_before = None
    /\ dl_result = <<>>
    /\ ix_pc = "done"
    /\ path_counter = [s \in Sections |-> 0]
    /\ open_tags = <<>>
    /\ idx_all_db_patches = EmptyDict
    /\ idx_recommended = EmptyDict
    /\ events = 0
    /\ listed = {}
    /\ seen_patch_platforms = {}
    /\ wanted_platforms = {}
    /\ ledger = <<>>
    /\ ledger_before = <<>>
    /\ ledger_first = <<>>
    /\ passes = 0
    /\ run_lines = <<>>
    /\ orig_name \in Names
    /\ normalized_name = <<>>
    /\ norm_done = FALSE
    /\ authenticated = FALSE
    /\ sent = {}
    /\ consulted = {}
    /\ b_pc = "idle"
    /\ b_args = <<>>
    /\ b_entries = <<>>
    /\ b_key = <<>>
    /\ b_uids = {}
    /\ b_files = <<>>
    /\ attempts = <<>>
    /\ desc_lines = {}
    /\ dirs = {}
    /\ b_total = 0
    /\ b_result = <<>>
    /\ info_args = <<>>
    /\ info_result = <<>>

NormalizeCall ==
    /\ ~norm_done
    /\ normalized_name' = NormalizeDirectoryName(orig_name)
    /\ norm_done' = TRUE
    /\ UNCHANGED <<orig_name, initVars, dlVars, ixVars, ledgerVars, sessVars, batchVars, infoVars>>

(***************************************************************************)
(* __remove_duplicate_lines_desc_files (src lines 329-339), on one         *)
(* description.txt.  A file content is a sequence of one-character         *)
(* strings; a line keeps its line break, as readlines() returns it.        *)
(***************************************************************************)
NL == "\n"
LedgerChars == {NL, "a", "b"}

\* Python orders strings by code point.
CodePoint(c) == CASE c = NL -> 10 [] c = "a" -> 97 [] c = "b" -> 98

RECURSIVE StrLess(_, _)
StrLess(s, t) ==
    IF t = <<>> THEN FALSE
    ELSE IF s = <<>> THEN TRUE
    ELSE IF Head(s) = Head(t) THEN StrLess(Tail(s), Tail(t))
    ELSE CodePoint(Head(s)) < CodePoint(Head(t))

\* file.readlines(): the content cut after every line break; the last line
\* has none when the content does not end in one.
RECURSIVE ReadLines(_)
ReadLines(content) ==
    IF content = <<>> THEN <<>>
    ELSE LET breaks == {i \in 1..Len(content) : content[i] = NL}
             k == IF breaks = {} THEN Len(content)
                  ELSE CHOOSE i \in breaks : \A j \in breaks : i <= j
         IN <<SubSeq(content, 1, k)>> \o ReadLines(SubSeq(content, k + 1, Len(content)))

\* set(lines)
LineSet(lines) == {lines[i] : i \in 1..Len(lines)}

\* sorted(a set of lines)
RECURSIVE Sorted(_)
Sorted(S) ==
    IF S = {} THEN <<>>
    ELSE LET least == CHOOSE x \in S : \A y \in S \ {x} : StrLess(x, y)
         IN <<least>> \o Sorted(S \ {least})

\* file.writelines(lines) into the truncated file
RECURSIVE WriteLines(_)
WriteLines(lines) ==
    IF lines = <<>> THEN <<>> ELSE Head(lines) \o WriteLines(Tail(lines))

\* A mutant: the lines are sorted but duplicates are kept.
RECURSIVE InsertSorted(_, _)
InsertSorted(line, sorted) ==
    IF sorted = <<>> THEN <<line>>
    ELSE IF StrLess(Head(sorted), line)
         THEN <<Head(sorted)>> \o InsertSorted(line, Tail(sorted))
    ELSE <<line>> \o sorted
RECURSIVE SortKeepingDuplicates(_)
SortKeepingDuplicates(lines) ==
    IF lines = <<>> THEN <<>>
    ELSE InsertSorted(Head(lines), SortKeepingDuplicates(Tail(lines)))

\* desc_lines_set = sorted(set(desc_file_handler.readlines()))
DescLinesSet(lines) == Sorted(LineSet(lines))

RemoveDuplicateLinesOf(content) == WriteLines(DescLinesSet(ReadLines(content)))

\* The lines print() appends to a ledger, without their line break.
LedgerLines == {<<"a">>, <<"b">>, <<"b", "a">>}
MaxLedgerLen == 6
MaxPasses == 2

\* Any description.txt found below target_dir is rewritten, whoever wrote it.
InitLedger ==
    /\ pc = "idle"
    /\ cookie_jar = None
    /\ status_code = 0
    /\ login_response = <<>>
    /\ hops = <<>>
    /\ fatal_logged = 0
    /\ ops = <<>>
    /\ outcome = "none"
    /\ total_downloaded_bytes = 0
    /\ download_from_file = FALSE
    /\ now = 0
    /\ catfile = None
    /\ catfile_before = None
    /\ em_catalog = None
    /\ server_ver = 1
    /\ all_platforms = None
    /\ db_release_components = None
    /\ recommended_db_patches = None
    /\ dl_pc = "idle"
    /\ dl_args = <<>>
    /\ resp_dl = <<>>
    /\ target_file = None
    /\ total_dl = 0
    /\ chunks_read = 0
    /\ opened_wb = FALSE
    /\ progress_calls = <<>>
    /\ file_before = None
    /\ dl_result = <<>>
    /\ ix_pc = "done"
    /\ path_counter = [s \in Sections |-> 0]
    /\ open_tags = <<>>
    /\ idx_all_db_patches = EmptyDict
    /\ idx_recommended = EmptyDict
    /\ events = 0
    /\ listed = {}
    /\ seen_patch_platforms = {}
    /\ wanted_platforms = {}
    /\ ledger \in SeqsUpTo(LedgerChars, MaxLedgerLen)
    /\ ledger_before = <<>>
    /\ ledger_first = <<>>
    /\ passes = 0
    /\ run_lines = <<>>
    /\ orig_name = <<>>
    /\ normalized_name = <<>>
    /\ norm_done = TRUE
    /\ authenticated = FALSE
    /\ sent = {}
    /\ consulted = {}
    /\ b_pc = "idle"
    /\ b_args = <<>>
    /\ b_entries = <<>>
    /\ b_key = <<>>
    /\ b_uids = {}
    /\ b_files = <<>>
    /\ attempts = <<>>
    /\ desc_lines = {}
    /\ dirs = {}
    /\ b_total = 0
    /\ b_result = <<>>
    /\ info_args = <<>>
    /\ info_result = <<>>

\* print(f"{file.name} - {patch.description}", file=desc_file), lines 301-304
PrintLedgerLine ==
    /\ passes = 0
    /\ \E line \in LedgerLines :
        /\ Len(ledger) + Len(line) + 1 <= MaxLedgerLen
        /\ ledger' = ledger \o line \o <<NL>>
    /\ UNCHANGED <<ledger_before, ledger_first, passes, run_lines>>
    /\ UNCHANGED <<initVars, dlVars, ixVars, normVars, sessVars, batchVars, infoVars>>

RemoveDuplicateLinesDescFiles ==
    /\ passes < MaxPasses
    /\ ledger' = RemoveDuplicateLinesOf(ledger)
    /\ ledger_before' = IF passes = 0 THEN ledger ELSE ledger_before
    /\ ledger_first' = IF passes = 0 THEN ledger' ELSE ledger_first
    /\ passes' = passes + 1
    /\ UNCHANGED run_lines
    /\ UNCHANGED <<initVars, dlVars, ixVars, normVars, sessVars, batchVars, infoVars>>

NextLedger == PrintLedgerLine \/ RemoveDuplicateLinesDescFiles

(***************************************************************************)
(* __download_link (src lines 603-675) with __extract_file_name_from_url,  *)
(* __check_file_exists and __calculate_file_checksum.  A file content is a *)
(* sequence of bytes; one destination directory, one file name.            *)
(***************************************************************************)
Bytes == {0, 1}
MaxBody == 3
Contents == SeqsUpTo(Bytes, MaxBody)

\* _CHUNK_SIZE (2 MiB in the source), in the model's bytes.
ChunkSize == 2

\* hashlib.sha256(content).hexdigest(): a string that names the content and
\* is written in lower case; no two contents share a digest.
HexDigest(content) == <<"lower", content>>
\* str.upper() of a checksum string; the empty string is <<>>.
Upper(checksum) == IF checksum = <<>> THEN <<>> ELSE <<"upper", checksum[2]>>
EmptyString == <<>>

\* __calculate_file_checksum, lines 742-764: the file is read in blocks of
\* 128 KiB, which hashes its whole content; the digest is uppercased.
CalculateFileChecksum(file) == Upper(HexDigest(file[1]))

\* A URL: the host and directory prefix, the file name and the query string.
Urls == {[prefix |-> "https://updates.oracle.com/Orion/Download/",
          name |-> "p1.zip", query |-> ""],
         [prefix |-> "https://updates.oracle.com/Orion/Download/",
          name |-> "p1.zip", query |-> "?aru=1"]}

\* __extract_file_name_from_url, lines 678-693: the first substitution
\* removes the prefix, the second the query string.
ExtractFileNameFromUrl(url) == url.name

\* __check_file_exists, lines 695-711, for the one file of the model.
CheckFileExists(file, file_size) ==
    IF file # None THEN Len(file[1]) = file_size ELSE FALSE

\* Truth value of oracle_file_checksum: None and "" are false.
Truthy(checksum) == checksum # None /\ checksum[1] # EmptyString

\* A mutant of the comparison of lines 669-673: a checksum is never
\* compared, so no mismatch is ever raised.
ChecksumRejectedNever(oracle_file_checksum, downloaded_file_checksum) == FALSE

\* lines 669-672: oracle_file_checksum and oracle_file_checksum !=
\* downloaded_file_checksum
ChecksumRejected(oracle_file_checksum, downloaded_file_checksum) ==
    Truthy(oracle_file_checksum) /\ oracle_file_checksum[1] # downloaded_file_checksum

\* A content no response body and no file of the model has.
OtherContent == <<2>>

\* The checksums a caller may pass for a download: none, the empty string,
\* and in either case the digest of the body served, of the file on disk, or
\* of some other content.
ChecksumChoices(body, file) ==
    {None, Some(EmptyString)} \cup
    {Some(<<k, c>>) : k \in {"upper", "lower"},
                      c \in {body, OtherContent} \cup
                            (IF file = None THEN {} ELSE {file[1]})}

InitDownload ==
    /\ pc = "idle"
    /\ cookie_jar = None
    /\ status_code = 0
    /\ login_response = <<>>
    /\ hops = <<>>
    /\ fatal_logged = 0
    /\ ops = <<>>
    /\ outcome = "none"
    /\ total_downloaded_bytes = 0
    /\ download_from_file = FALSE
    /\ now = 0
    /\ catfile = None
    /\ catfile_before = None
    /\ em_catalog = None
    /\ server_ver = 1
    /\ all_platforms = None
    /\ db_release_components = None
    /\ recommended_db_patches = None
    /\ dl_pc = "idle"
    /\ dl_args = <<>>
    /\ resp_dl = <<>>
    /\ target_file \in {None} \cup {Some(c) : c \in Contents}
    /\ total_dl = 0
    /\ chunks_read = 0
    /\ opened_wb = FALSE
    /\ progress_calls = <<>>
    /\ file_before = None
    /\ dl_result = <<>>
    /\ ix_pc = "done"
    /\ path_counter = [s \in Sections |-> 0]
    /\ open_tags = <<>>
    /\ idx_all_db_patches = EmptyDict
    /\ idx_recommended = EmptyDict
    /\ events = 0
    /\ listed = {}
    /\ seen_patch_platforms = {}
    /\ wanted_platforms = {}
    /\ ledger = <<>>
    /\ ledger_before = <<>>
    /\ ledger_first = <<>>
    /\ passes = 0
    /\ run_lines = <<>>
    /\ orig_name = <<>>
    /\ normalized_name = <<>>
    /\ norm_done = TRUE
    /\ authenticated = FALSE
    /\ sent = {}
    /\ consulted = {}
    /\ b_pc = "idle"
    /\ b_args = <<>>
    /\ b_entries = <<>>
    /\ b_key = <<>>
    /\ b_uids = {}
    /\ b_files = <<>>
    /\ attempts = <<>>
    /\ desc_lines = {}
    /\ dirs = {}
    /\ b_total = 0
    /\ b_result = <<>>
    /\ info_args = <<>>
    /\ info_result = <<>>

\* A mutant of file_size: the length of the body instead of the declared
\* content-length.
FileSizeOfBody == Len(resp_dl.body)

\* file_size, lines 640-645
FileSize == IF resp_dl.content_length = None THEN 0 ELSE resp_dl.content_length[1]
FileName == ExtractFileNameFromUrl(dl_args.url)

\* lines 631-645: the call and the streamed GET; the body is not read yet.
DownloadLinkCall ==
    /\ dl_pc = "idle"
    /\ \E url \in Urls, cb \in BOOLEAN, dry \in BOOLEAN, body \in Contents,
          clen \in {None} \cup {Some(n) : n \in 0..MaxBody} :
        \E sum \in ChecksumChoices(body, target_file) :
            /\ dl_args' = [url |-> url, oracle_file_checksum |-> sum,
                           progress_function |-> cb, dry_run_mode |-> dry]
            /\ resp_dl' = [content_length |-> clen, body |-> body]
    /\ dl_pc' = "requested"
    /\ total_dl' = 0
    /\ chunks_read' = 0
    /\ opened_wb' = FALSE
    /\ progress_calls' = <<>>
    /\ file_before' = target_file
    /\ dl_result' = <<>>
    /\ UNCHANGED target_file
    /\ UNCHANGED <<initVars, ixVars, ledgerVars, normVars, sessVars, batchVars, infoVars>>

\* lines 647-649
DryRunReturn ==
    /\ dl_pc = "requested"
    /\ dl_args.dry_run_mode
    /\ dl_result' = <<"return", FileSize>>
    /\ dl_pc' = "done"
    /\ UNCHANGED <<dl_args, resp_dl, target_file, total_dl, chunks_read,
                   opened_wb, progress_calls, file_before>>
    /\ UNCHANGED <<initVars, ixVars, ledgerVars, normVars, sessVars, batchVars, infoVars>>

\* lines 651-652: the file is there with the declared size; the callback is
\* called without a test for None, which raises TypeError when it is None.
SkipExisting ==
    /\ dl_pc = "requested"
    /\ ~dl_args.dry_run_mode
    /\ CheckFileExists(target_file, FileSize)
    /\ IF dl_args.progress_function
       THEN /\ progress_calls' = Append(progress_calls, <<FileName, FileSize, FileSize>>)
            /\ dl_pc' = "written"
            /\ UNCHANGED dl_result
       ELSE /\ dl_result' = <<"TypeError">>
            /\ dl_pc' = "done"
            /\ UNCHANGED progress_calls
    /\ UNCHANGED <<dl_args, resp_dl, target_file, total_dl, chunks_read,
                   opened_wb, file_before>>
    /\ UNCHANGED <<initVars, ixVars, ledgerVars, normVars, sessVars, batchVars, infoVars>>

\* lines 653-658: open(..., "wb") creates or truncates the file.
OpenForWriting ==
    /\ dl_pc = "requested"
    /\ ~dl_args.dry_run_mode
    /\ ~CheckFileExists(target_file, FileSize)
    /\ target_file' = Some(<<>>)
    /\ opened_wb' = TRUE
    /\ total_dl' = 0
    /\ dl_pc' = "writing"
    /\ UNCHANGED <<dl_args, resp_dl, chunks_read, progress_calls, file_before,
                   dl_result>>
    /\ UNCHANGED <<initVars, ixVars, ledgerVars, normVars, sessVars, batchVars, infoVars>>

\* lines 659-663: one chunk of at most _CHUNK_SIZE bytes.
WriteChunk ==
    /\ dl_pc = "writing"
    /\ total_dl < Len(resp_dl.body)
    /\ LET last == IF total_dl + ChunkSize < Len(resp_dl.body)
                   THEN total_dl + ChunkSize ELSE Len(resp_dl.body)
           chunk == SubSeq(resp_dl.body, total_dl + 1, last)
       IN /\ total_dl' = total_dl + Len(chunk)
          /\ target_file' = Some(target_file[1] \o chunk)
          /\ progress_calls' =
                IF FileSize # 0 /\ dl_args.progress_function
                THEN Append(progress_calls, <<FileName, FileSize, total_dl + Len(chunk)>>)
                ELSE progress_calls
    /\ chunks_read' = chunks_read + 1
    /\ UNCHANGED <<dl_pc, dl_args, resp_dl, opened_wb, file_before, dl_result>>
    /\ UNCHANGED <<initVars, ixVars, ledgerVars, normVars, sessVars, batchVars, infoVars>>

\* the body is exhausted: the with block closes the file
CloseFile ==
    /\ dl_pc = "writing"
    /\ total_dl = Len(resp_dl.body)
    /\ dl_pc' = "written"
    /\ UNCHANGED <<dl_args, resp_dl, target_file, total_dl, chunks_read,
                   opened_wb, progress_calls, file_before, dl_result>>
    /\ UNCHANGED <<initVars, ixVars, ledgerVars, normVars, sessVars, batchVars, infoVars>>

\* lines 665-675
VerifyChecksum ==
    /\ dl_pc = "written"
    /\ LET downloaded_file_checksum == CalculateFileChecksum(target_file)
       IN dl_result' =
            IF ChecksumRejected(dl_args.oracle_file_checksum, downloaded_file_checksum)
            THEN <<"ChecksumMismatch">>
            ELSE <<"return", FileSize>>
    /\ dl_pc' = "done"
    /\ UNCHANGED <<dl_args, resp_dl, target_file, total_dl, chunks_read,
                   opened_wb, progress_calls, file_before>>
    /\ UNCHANGED <<initVars, ixVars, ledgerVars, normVars, sessVars, batchVars, infoVars>>

\* The call is over and its locals are gone; the destination directory
\* keeps the file.
DownloadLinkEnd ==
    /\ dl_pc = "done"
    /\ dl_pc' = "idle"
    /\ dl_args' = <<>>
    /\ resp_dl' = <<>>
    /\ total_dl' = 0
    /\ chunks_read' = 0
    /\ opened_wb' = FALSE
    /\ progress_calls' = <<>>
    /\ file_before' = None
    /\ dl_result' = <<>>
    /\ UNCHANGED target_file
    /\ UNCHANGED <<initVars, ixVars, ledgerVars, normVars, sessVars, batchVars, infoVars>>

NextDownload ==
    \/ DownloadLinkCall
    \/ DryRunReturn
    \/ SkipExisting
    \/ OpenForWriting
    \/ WriteChunk
    \/ CloseFile
    \/ VerifyChecksum
    \/ DownloadLinkEnd

(***************************************************************************)
(* The catalog documents and the indexer (src lines 432-455, 800-1031).    *)
(* A dict is a function on the set of its keys.                            *)
(***************************************************************************)
Put(dict, key, value) ==
    [k \in DOMAIN dict \cup {key} |-> IF k = key THEN value ELSE dict[k]]

\* aru_platforms.xml: the platform elements, id attribute and text.
AruPlatformsDoc ==
    {[id |-> "P1", text |-> "Linux x86-64"], [id |-> "P2", text |-> "Solaris"]}
PlatformIds == {t.id : t \in AruPlatformsDoc}

\* __build_dict_platform_codes, lines 451-455
BuildDictPlatformCodes(doc, wanted) ==
    LET kept == {t \in doc : t.text \in wanted}
    IN [id \in {t.id : t \in kept} |-> (CHOOSE t \in kept : t.id = id).text]

\* components.xml: the RELEASE components.  A version is the sequence of its
\* characters.
ComponentsDoc ==
    {[cid |-> "C1", name |-> "Oracle Database", version |-> <<"1", "9", ".", "3">>],
     [cid |-> "C2", name |-> "Oracle Clusterware", version |-> <<"1", "2", ".", "2">>],
     [cid |-> "C9", name |-> "Enterprise Manager", version |-> <<"1", "3", ".", "5">>]}
ComponentIds == {c.cid : c \in ComponentsDoc}
TrackedComponentNames == {"Oracle Database", "RAC One Node", "Oracle Clusterware"}

\* __build_dict_database_release_components, lines 825-860 (the two
\* end-of-support dates are left out)
BuildDictDatabaseReleaseComponents(doc) ==
    LET kept == {c \in doc : c.name \in TrackedComponentNames}
    IN [cid \in {c.cid : c \in kept} |->
            LET c == CHOOSE d \in kept : d.cid = cid
            IN [version |-> c.version, name |-> c.name]]

\* The two dicts the indexer reads while it parses.
AllPlatforms == BuildDictPlatformCodes(AruPlatformsDoc, wanted_platforms)
DbReleaseComponents == BuildDictDatabaseReleaseComponents(ComponentsDoc)

\* ---- the elements of patch_recommendations.xml
RecommendationSections == {"standalone_recommendations", "components_recommendations"}
Uids == {"U1", "U2"}

\* A file element of a patch: its SHA-256 digest child is absent, or has the
\* digest in lower or in upper case.
FileElems ==
    {[name |-> "p1.zip", size |-> 2, digest |-> d] :
        d \in {None, Some(<<"lower", <<0, 1>>>>), Some(<<"upper", <<0, 1>>>>)}}

\* The text of bug/abstract of the patch elements, as sequences of characters.
Abstracts == [u \in Uids |-> IF u = "U1" THEN <<"D", "B", " ", "R", "U">>
                             ELSE <<"G", "I", " ", "R", "U">>]

\* A patch element of the patches section.  platform: the id of its platform
\* child, None without the child.  access: None without an access child, else
\* Some(text), the text being None for an empty child.
PatchElems ==
    {[uid |-> u, platform |-> pl, release |-> "19.0.0.0.0", access |-> a, files |-> fs,
      description |-> Abstracts[u]] :
        u \in Uids,
        pl \in {None} \cup {Some(i) : i \in PlatformIds},
        a \in {None, Some(None), Some(Some("Open access")),
               Some(Some("Password Protected"))},
        fs \in {<<>>} \cup {<<f>> : f \in FileElems}}

\* The uids of the patch children of a platform element, in document order.
PatchLists == {<<>>, <<"U1">>, <<"U1", "U2">>, <<"U2", "U2">>}

\* A release element of a recommendations section: its cid and its platform
\* children.  C9 is not a tracked component; the last release has two
\* platform children.
ReleaseElems ==
    {[cid |-> "C1", platforms |-> <<[id |-> "P1", patches |-> ps]>>] :
        ps \in PatchLists}
    \cup {[cid |-> "C9", platforms |-> <<[id |-> "P1", patches |-> <<"U1">>]>>],
          [cid |-> "C1", platforms |-> <<>>],
          [cid |-> "C1", platforms |-> <<[id |-> "P2", patches |-> <<"U2">>]>>],
          [cid |-> "C1", platforms |-> <<[id |-> "P1", patches |-> <<"U2">>],
                                         [id |-> "P2", patches |-> <<"U1">>]>>]}

\* A mutant of the platform test: every platform passes.
PlatformWantedAlways(platform_id, platforms) == TRUE

\* platform_id in self.__all_platforms, lines 913, 971 and 1015
PlatformWanted(platform_id, platforms) == platform_id \in DOMAIN platforms

\* lines 904-939, the end of a patch element while the patches counter is
\* positive, fails when a child the code dereferences is missing: no platform
\* child (line 912), and for a wanted platform a file without SHA-256 digest
\* (lines 921-923) or no access child, which leaves access_level unbound at
\* line 935.
PatchElementFails(elem) ==
    \/ elem.platform = None
    \/ /\ PlatformWanted(elem.platform[1], AllPlatforms)
       /\ \/ \E i \in 1..Len(elem.files) : elem.files[i].digest = None
          \/ elem.access = None

\* lines 912-937: the patch index after a patch element that does not fail.
\* release_cleared: the release child was cleared at its own end event by a
\* recommendations handler (lines 983, 1027), which removes its name
\* attribute.
ProcessPatchElement(patches, elem, release_cleared) ==
    LET platform_id == elem.platform[1]
    IN IF ~PlatformWanted(platform_id, AllPlatforms) THEN patches
       ELSE Put(patches, elem.uid,
                [uid |-> elem.uid,
                 description |-> elem.description,
                 platform_code |-> platform_id,
                 release_name |-> IF release_cleared THEN None ELSE Some(elem.release),
                 access_level |-> elem.access[1],
                 files |-> [i \in 1..Len(elem.files) |->
                               [name |-> elem.files[i].name,
                                size |-> elem.files[i].size,
                                sha256sum |-> elem.files[i].digest[1]]]])

\* A mutant of the merge: the uids of a platform child replace the set.
MergeUidsReplacing(recommended_patches, key, uids) ==
    Put(recommended_patches, key, {uids[i] : i \in 1..Len(uids)})

\* lines 972-982 and 1016-1026: the set of the key is created on first use
\* and every patch child's uid is added to it.
MergeUids(recommended_patches, key, uids) ==
    LET old == IF key \in DOMAIN recommended_patches
               THEN recommended_patches[key] ELSE {}
    IN Put(recommended_patches, key, old \cup {uids[i] : i \in 1..Len(uids)})

\* lines 969-982 and 1013-1026: for platform in elem
RECURSIVE MergePlatforms(_, _, _)
MergePlatforms(recommended_patches, component_id, platforms) ==
    IF platforms = <<>> THEN recommended_patches
    ELSE LET platform == Head(platforms)
             merged == IF PlatformWanted(platform.id, AllPlatforms)
                       THEN MergeUids(recommended_patches,
                                      <<component_id, platform.id>>, platform.patches)
                       ELSE recommended_patches
         IN MergePlatforms(merged, component_id, Tail(platforms))

\* A mutant of the release handler: the component id is not tested.
ProcessReleaseElementAnyComponent(recommended_patches, elem) ==
    MergePlatforms(recommended_patches, elem.cid, elem.platforms)

\* lines 967-983 and 1011-1027: the end of a release element inside a
\* recommendations section
ProcessReleaseElement(recommended_patches, elem) ==
    IF elem.cid \in DOMAIN DbReleaseComponents
    THEN MergePlatforms(recommended_patches, elem.cid, elem.platforms)
    ELSE recommended_patches

MaxDepth == 2
MaxElements == 2
WantedChoices == {{"Linux x86-64"}, {"Linux x86-64", "Solaris", "AIX"}}

\* lines 871-876: the counters are zero, both indices are empty
InitIndex ==
    /\ pc = "idle"
    /\ cookie_jar = None
    /\ status_code = 0
    /\ login_response = <<>>
    /\ hops = <<>>
    /\ fatal_logged = 0
    /\ ops = <<>>
    /\ outcome = "none"
    /\ total_downloaded_bytes = 0
    /\ download_from_file = FALSE
    /\ now = 0
    /\ catfile = None
    /\ catfile_before = None
    /\ em_catalog = None
    /\ server_ver = 1
    /\ all_platforms = None
    /\ db_release_components = None
    /\ recommended_db_patches = None
    /\ dl_pc = "idle"
    /\ dl_args = <<>>
    /\ resp_dl = <<>>
    /\ target_file = None
    /\ total_dl = 0
    /\ chunks_read = 0
    /\ opened_wb = FALSE
    /\ progress_calls = <<>>
    /\ file_before = None
    /\ dl_result = <<>>
    /\ ix_pc = "parsing"
    /\ path_counter = [s \in Sections |-> 0]
    /\ open_tags = <<>>
    /\ idx_all_db_patches = EmptyDict
    /\ idx_recommended = EmptyDict
    /\ events = 0
    /\ listed = {}
    /\ seen_patch_platforms = {}
    /\ wanted_platforms \in WantedChoices
    /\ ledger = <<>>
    /\ ledger_before = <<>>
    /\ ledger_first = <<>>
    /\ passes = 0
    /\ run_lines = <<>>
    /\ orig_name = <<>>
    /\ normalized_name = <<>>
    /\ norm_done = TRUE
    /\ authenticated = FALSE
    /\ sent = {}
    /\ consulted = {}
    /\ b_pc = "idle"
    /\ b_args = <<>>
    /\ b_entries = <<>>
    /\ b_key = <<>>
    /\ b_uids = {}
    /\ b_files = <<>>
    /\ attempts = <<>>
    /\ desc_lines = {}
    /\ dirs = {}
    /\ b_total = 0
    /\ b_result = <<>>
    /\ info_args = <<>>
    /\ info_result = <<>>

\* A start event of a section element: lines 898-899, 959-960, 1003-1004.
StartSection ==
    /\ ix_pc = "parsing"
    /\ Len(open_tags) < MaxDepth
    /\ \E tag \in Sections :
        /\ open_tags' = Append(open_tags, tag)
        /\ path_counter' = [path_counter EXCEPT ![tag] = @ + 1]
    /\ UNCHANGED <<ix_pc, idx_all_db_patches, idx_recommended, events, listed,
                   seen_patch_platforms, wanted_platforms>>
    /\ UNCHANGED <<initVars, dlVars, ledgerVars, normVars, sessVars, batchVars, infoVars>>

\* A mutant of the decrement: the end of a section leaves its counter.
CounterAfterEndKept(counter, tag) == counter

\* path_counter[tag] -= 1, lines 942, 986 and 1030
CounterAfterEnd(counter, tag) == [counter EXCEPT ![tag] = @ - 1]

\* The end event of the innermost open section: lines 941-943, 985-987,
\* 1029-1031.
EndSection ==
    /\ ix_pc = "parsing"
    /\ open_tags # <<>>
    /\ LET tag == open_tags[Len(open_tags)]
       IN path_counter' = CounterAfterEnd(path_counter, tag)
    /\ open_tags' = Front(open_tags)
    /\ UNCHANGED <<ix_pc, idx_all_db_patches, idx_recommended, events, listed,
                   seen_patch_platforms, wanted_platforms>>
    /\ UNCHANGED <<initVars, dlVars, ledgerVars, normVars, sessVars, batchVars, infoVars>>

\* A mutant of the guard: the section counter is not consulted.
InSectionAlways(counter, tag) == TRUE

\* path_counter[tag] > 0, lines 905, 964 and 1008
InSection(counter, tag) == counter[tag] > 0

\* The end event of a patch element with its children.  Its release child
\* ended before it, inside whatever recommendations section is open.
EndPatch ==
    /\ ix_pc = "parsing"
    /\ events < MaxElements
    /\ \E elem \in PatchElems :
        LET release_cleared == \E s \in RecommendationSections : InSection(path_counter, s)
        IN IF InSection(path_counter, "patches")
           THEN /\ seen_patch_platforms' = seen_patch_platforms \cup
                        (IF elem.platform = None THEN {} ELSE {elem.platform[1]})
                /\ IF PatchElementFails(elem)
                   THEN ix_pc' = "error" /\ UNCHANGED idx_all_db_patches
                   ELSE /\ idx_all_db_patches' =
                              ProcessPatchElement(idx_all_db_patches, elem, release_cleared)
                        /\ UNCHANGED ix_pc
           ELSE UNCHANGED <<ix_pc, idx_all_db_patches, seen_patch_platforms>>
    /\ events' = events + 1
    /\ UNCHANGED <<path_counter, open_tags, idx_recommended, listed, wanted_platforms>>
    /\ UNCHANGED <<initVars, dlVars, ledgerVars, normVars, sessVars, batchVars, infoVars>>

\* The end event of a release element with its platform and patch children.
\* The patch children ended before it: while the patches counter is positive
\* each of them is taken for a patch record and fails at line 912, having no
\* platform child.
EndRelease ==
    /\ ix_pc = "parsing"
    /\ events < MaxElements
    /\ \E elem \in ReleaseElems :
        LET in_recommendations == \E s \in RecommendationSections : InSection(path_counter, s)
            has_patch_child == \E i \in 1..Len(elem.platforms) :
                                    elem.platforms[i].patches # <<>>
        IN IF InSection(path_counter, "patches") /\ has_patch_child
           THEN ix_pc' = "error" /\ UNCHANGED <<idx_recommended, listed>>
           ELSE IF in_recommendations
           THEN /\ idx_recommended' = ProcessReleaseElement(idx_recommended, elem)
                /\ listed' = listed \cup UNION
                      {{<<s, elem.cid, elem.platforms[i].id, elem.platforms[i].patches[j]>> :
                            j \in 1..Len(elem.platforms[i].patches),
                            s \in {t \in RecommendationSections : InSection(path_counter, t)}} :
                        i \in 1..Len(elem.platforms)}
                /\ UNCHANGED ix_pc
           ELSE UNCHANGED <<ix_pc, idx_recommended, listed>>
    /\ events' = events + 1
    /\ UNCHANGED <<path_counter, open_tags, idx_all_db_patches,
                   seen_patch_platforms, wanted_platforms>>
    /\ UNCHANGED <<initVars, dlVars, ledgerVars, normVars, sessVars, batchVars, infoVars>>

\* iterparse is exhausted: every element is closed
EndDocument ==
    /\ ix_pc = "parsing"
    /\ open_tags = <<>>
    /\ ix_pc' = "done"
    /\ UNCHANGED <<path_counter, open_tags, idx_all_db_patches, idx_recommended,
                   events, listed, seen_patch_platforms, wanted_platforms>>
    /\ UNCHANGED <<initVars, dlVars, ledgerVars, normVars, sessVars, batchVars, infoVars>>

NextIndex ==
    \/ StartSection
    \/ EndSection
    \/ EndPatch
    \/ EndRelease
    \/ EndDocument

(***************************************************************************)
(* initialize_downloader (src lines 75-129) with __logon_oracle_support    *)
(* (371-430), cleanup_downloader_resources (359-369) and                   *)
(* __download_em_catalog (766-798).  An index is None or Some(ver), built  *)
(* from version ver of the catalog; every catalog of the model has         *)
(* platforms, components and recommendations for the wanted platforms, so  *)
(* a built index is not empty.                                             *)
(***************************************************************************)
\* http.HTTPStatus
OK == 200
MOVED_PERMANENTLY == 301
FOUND == 302
TEMPORARY_REDIRECT == 307
UNAUTHORIZED == 401
INTERNAL_SERVER_ERROR == 500
Redirects == {FOUND, TEMPORARY_REDIRECT, MOVED_PERMANENTLY}
Statuses == Redirects \cup {OK, UNAUTHORIZED, INTERNAL_SERVER_ERROR}

\* The cookies a response sets: a value per cookie name, "-" for a name the
\* response does not set.  A jar has the same shape.
CookieNames == {"sid", "tok"}
CookieValues == {"a", "b"}
NoCookie == "-"
\* The server knows two session ids and one token.
ResponseCookies ==
    {c \in [CookieNames -> CookieValues \cup {NoCookie}] : c["tok"] # "b"}

\* A mutant of the update: a name the jar already holds keeps its value.
JarUpdateKeepingOld(jar, cookies) ==
    [n \in CookieNames |-> IF jar[n] # NoCookie THEN jar[n] ELSE cookies[n]]

\* RequestsCookieJar.update(other), lines 418 and 422: every cookie of the
\* response is set in the jar, replacing one of the same name.
JarUpdate(jar, cookies) ==
    [n \in CookieNames |-> IF cookies[n] # NoCookie THEN cookies[n] ELSE jar[n]]

\* A mutant of the return value: the logon always reports success.
LogonReturnZero(status) == 0

\* lines 427-430
LogonReturn(status) == IF status = UNAUTHORIZED THEN 1 ELSE 0

Day == 60 * 60 * 24
Hour == 60 * 60
StartTime == 2 * Day

\* A mutant of the comparison: an archive of exactly 24 hours is too old.
CatalogTooOldInclusive(st_mtime, time) == st_mtime <= time - Day

\* line 109
CatalogTooOld(st_mtime, time) == st_mtime < time - Day

MaxHops == 2
MaxFatalLogs == 2
MaxTicks == 1
MaxVer == 2
MaxCatalogBytes == 1

\* The statuses the server may answer the next login request with: the chain
\* has at most MaxHops redirects.
NextStatuses == IF Len(hops) < MaxHops THEN Statuses ELSE Statuses \ Redirects

\* A new process: no session, no index.  The target directory is empty, or
\* holds the archive and the expanded catalog an earlier run left, or the
\* expanded catalog alone, the archive having been removed.
Init ==
    /\ pc = "idle"
    /\ cookie_jar = None
    /\ status_code = 0
    /\ login_response = <<>>
    /\ hops = <<>>
    /\ fatal_logged = 0
    /\ ops = <<>>
    /\ outcome = "none"
    /\ total_downloaded_bytes = 0
    /\ download_from_file = FALSE
    /\ now = StartTime
    /\ \/ catfile = None /\ em_catalog \in {None, Some(1)}
       \/ /\ \E age \in {25 * Hour, Day + 1, Day, Day - 1, Hour} :
                catfile = Some([mtime |-> StartTime - age, ver |-> 1])
          /\ em_catalog = Some(1)
    /\ catfile_before = None
    /\ server_ver = 1
    /\ all_platforms = None
    /\ db_release_components = None
    /\ recommended_db_patches = None
    /\ dl_pc = "idle"
    /\ dl_args = <<>>
    /\ resp_dl = <<>>
    /\ target_file = None
    /\ total_dl = 0
    /\ chunks_read = 0
    /\ opened_wb = FALSE
    /\ progress_calls = <<>>
    /\ file_before = None
    /\ dl_result = <<>>
    /\ ix_pc = "done"
    /\ path_counter = [s \in Sections |-> 0]
    /\ open_tags = <<>>
    /\ idx_all_db_patches = EmptyDict
    /\ idx_recommended = EmptyDict
    /\ events = 0
    /\ listed = {}
    /\ seen_patch_platforms = {}
    /\ wanted_platforms = {"Linux x86-64"}
    /\ ledger = <<>>
    /\ ledger_before = <<>>
    /\ ledger_first = <<>>
    /\ passes = 0
    /\ run_lines = <<>>
    /\ orig_name = <<>>
    /\ normalized_name = <<>>
    /\ norm_done = TRUE
    /\ authenticated = FALSE
    /\ sent = {}
    /\ consulted = {}
    /\ b_pc = "idle"
    /\ b_args = <<>>
    /\ b_entries = <<>>
    /\ b_key = <<>>
    /\ b_uids = {}
    /\ b_files = <<>>
    /\ attempts = <<>>
    /\ desc_lines = {}
    /\ dirs = {}
    /\ b_total = 0
    /\ b_result = <<>>
    /\ info_args = <<>>
    /\ info_result = <<>>

\* A mutant of the test of line 92: every call logs on.
NeedsLogonAlways(jar) == TRUE

\* if self.__cookie_jar is None, line 92
NeedsLogon(jar) == jar = None

\* line 92: the call; the logon is made only without a cookie jar
InitializeDownloader ==
    /\ pc = "idle"
    /\ \E dff \in BOOLEAN : download_from_file' = dff
    /\ ops' = <<>>
    /\ outcome' = "running"
    /\ total_downloaded_bytes' = 0
    /\ catfile_before' = catfile
    /\ IF NeedsLogon(cookie_jar)
       THEN /\ pc' = "logon"
            /\ status_code' = 0
            /\ hops' = <<>>
            /\ fatal_logged' = 0
       ELSE /\ pc' = "catalog"
            /\ UNCHANGED <<status_code, hops, fatal_logged>>
    /\ UNCHANGED <<cookie_jar, login_response, now, catfile, em_catalog,
                   server_ver, all_platforms, db_release_components,
                   recommended_db_patches>>
    /\ UNCHANGED <<dlVars, ixVars, ledgerVars, normVars, sessVars, batchVars, infoVars>>

\* lines 385-394: the first request and its response
LogonFirstRequest ==
    /\ pc = "logon"
    /\ \E st \in NextStatuses, cookies \in ResponseCookies :
        /\ login_response' = cookies
        /\ cookie_jar' = Some(cookies)
        /\ status_code' = st
        /\ hops' = <<cookies>>
    /\ ops' = Append(ops, "login_request")
    /\ pc' = "loop"
    /\ UNCHANGED <<fatal_logged, outcome, total_downloaded_bytes,
                   download_from_file, now, catfile, catfile_before, em_catalog,
                   server_ver, all_platforms, db_release_components,
                   recommended_db_patches>>
    /\ UNCHANGED <<dlVars, ixVars, ledgerVars, normVars, sessVars, batchVars, infoVars>>

\* requests.get raises (a timeout, a connection error) at line 385 or 410; no
\* handler catches it, and the jar is what line 392 or 418 last made it.
LogonRequestRaises ==
    /\ \/ pc = "logon"
       \/ pc = "loop" /\ status_code \in Redirects
    /\ ops' = Append(ops, "login_request")
    /\ outcome' = "RequestException"
    /\ pc' = "idle"
    /\ login_response' = <<>>
    /\ hops' = <<>>
    /\ UNCHANGED <<cookie_jar, status_code, fatal_logged,
                   total_downloaded_bytes, download_from_file, now, catfile,
                   catfile_before, em_catalog, server_ver, all_platforms,
                   db_release_components, recommended_db_patches>>
    /\ UNCHANGED <<dlVars, ixVars, ledgerVars, normVars, sessVars, batchVars, infoVars>>

\* lines 396-398 and 427-428, then 95-98: 401 ends the loop
LogonUnauthorized ==
    /\ pc = "loop"
    /\ status_code = UNAUTHORIZED
    /\ cookie_jar' = None
    /\ IF LogonReturn(status_code) # 0
       THEN /\ pc' = "idle"
            /\ outcome' = "OracleSupportError"
            /\ login_response' = <<>>
            /\ hops' = <<>>
       ELSE /\ pc' = "logged_on"
            /\ UNCHANGED <<outcome, login_response, hops>>
    /\ UNCHANGED <<status_code, fatal_logged, ops,
                   total_downloaded_bytes, download_from_file, now, catfile,
                   catfile_before, em_catalog, server_ver, all_platforms,
                   db_release_components, recommended_db_patches>>
    /\ UNCHANGED <<dlVars, ixVars, ledgerVars, normVars, sessVars, batchVars, infoVars>>

\* lines 400-419: one redirect hop
LogonRedirect ==
    /\ pc = "loop"
    /\ status_code \in Redirects
    /\ \E st \in NextStatuses, cookies \in ResponseCookies :
        /\ login_response' = cookies
        /\ cookie_jar' = Some(JarUpdate(cookie_jar[1], cookies))
        /\ status_code' = st
        /\ hops' = Append(hops, cookies)
    /\ ops' = Append(ops, "login_request")
    /\ UNCHANGED <<pc, fatal_logged, outcome, total_downloaded_bytes,
                   download_from_file, now, catfile, catfile_before, em_catalog,
                   server_ver, all_platforms, db_release_components,
                   recommended_db_patches>>
    /\ UNCHANGED <<dlVars, ixVars, ledgerVars, normVars, sessVars, batchVars, infoVars>>

\* lines 421-423 and 430: 200 ends the loop
LogonOk ==
    /\ pc = "loop"
    /\ status_code = OK
    /\ cookie_jar' = Some(JarUpdate(cookie_jar[1], login_response))
    /\ pc' = "logged_on"
    /\ authenticated' = TRUE
    /\ UNCHANGED <<status_code, login_response, hops, fatal_logged, ops, outcome,
                   total_downloaded_bytes, download_from_file, now, catfile,
                   catfile_before, em_catalog, server_ver, all_platforms,
                   db_release_components, recommended_db_patches>>
    /\ UNCHANGED <<sent, consulted>>
    /\ UNCHANGED <<dlVars, ixVars, ledgerVars, normVars, batchVars, infoVars>>

\* lines 424-425: any other status is logged by logging.fatal, which neither
\* raises nor leaves the loop; the next iteration finds the same status.
LogonUnexpected ==
    /\ pc = "loop"
    /\ status_code \notin Redirects \cup {OK, UNAUTHORIZED}
    /\ fatal_logged' = IF fatal_logged < MaxFatalLogs THEN fatal_logged + 1
                       ELSE fatal_logged
    /\ UNCHANGED <<pc, cookie_jar, status_code, login_response, hops, ops, outcome,
                   total_downloaded_bytes, download_from_file, now, catfile,
                   catfile_before, em_catalog, server_ver, all_platforms,
                   db_release_components, recommended_db_patches>>
    /\ UNCHANGED <<dlVars, ixVars, ledgerVars, normVars, sessVars, batchVars, infoVars>>

\* lines 94-96: __logon_oracle_support has returned 0; its locals are gone
LogonReturned ==
    /\ pc = "logged_on"
    /\ pc' = "catalog"
    /\ login_response' = <<>>
    /\ hops' = <<>>
    /\ UNCHANGED <<cookie_jar, status_code, fatal_logged, ops, outcome,
                   total_downloaded_bytes, download_from_file, now, catfile,
                   catfile_before, em_catalog, server_ver, all_platforms,
                   db_release_components, recommended_db_patches>>
    /\ UNCHANGED <<dlVars, ixVars, ledgerVars, normVars, sessVars, batchVars, infoVars>>

\* lines 100-117.  A stale archive: cleanup_downloader_resources removes the
\* expanded directory and the archive, then __download_em_catalog, finding no
\* archive, downloads it (the declared size is the bytes reported, 0 without
\* a content-length) and expands it.  No archive: __download_em_catalog alone.
EnsureCatalog ==
    /\ pc = "catalog"
    /\ LET stale == catfile # None /\ CatalogTooOld(catfile[1].mtime, now)
           fetched == Some([mtime |-> now, ver |-> server_ver])
       IN IF catfile = None \/ stale
          THEN /\ \E size \in 0..MaxCatalogBytes : total_downloaded_bytes' = size
               /\ catfile' = fetched
               /\ em_catalog' = Some(server_ver)
               /\ ops' = ops \o (IF stale THEN <<"cleanup">> ELSE <<>>)
                             \o <<"download_catalog", "extract">>
          ELSE UNCHANGED <<total_downloaded_bytes, catfile, em_catalog, ops>>
    /\ pc' = "indices"
    /\ UNCHANGED <<cookie_jar, status_code, login_response, hops, fatal_logged,
                   outcome, download_from_file, now, catfile_before, server_ver,
                   all_platforms, db_release_components, recommended_db_patches>>
    /\ UNCHANGED <<dlVars, ixVars, ledgerVars, normVars, sessVars, batchVars, infoVars>>

\* lines 111-116 with 782-789 and 634-640: the archive is missing or too old,
\* and requests.get of the catalog raises before the file is opened.  After a
\* cleanup the old archive and the expanded catalog are gone.
CatalogDownloadRaises ==
    /\ pc = "catalog"
    /\ LET stale == catfile # None /\ CatalogTooOld(catfile[1].mtime, now)
       IN /\ catfile = None \/ stale
          /\ ops' = ops \o (IF stale THEN <<"cleanup">> ELSE <<>>)
                        \o <<"download_catalog">>
          /\ em_catalog' = IF stale THEN None ELSE em_catalog
    /\ catfile' = None
    /\ outcome' = "RequestException"
    /\ pc' = "idle"
    /\ UNCHANGED <<cookie_jar, status_code, login_response, hops, fatal_logged,
                   total_downloaded_bytes, download_from_file, now,
                   catfile_before, server_ver, all_platforms,
                   db_release_components, recommended_db_patches>>
    /\ UNCHANGED <<dlVars, ixVars, ledgerVars, normVars, sessVars, batchVars, infoVars>>

\* lines 119-129: an index is built when it is None (or empty), from the
\* expanded catalog; then the call returns total_downloaded_bytes.
BuildIndices ==
    /\ pc = "indices"
    /\ LET build_platforms == all_platforms = None
           build_components == db_release_components = None
           build_recommended == recommended_db_patches = None /\ ~download_from_file
       IN /\ all_platforms' = IF build_platforms THEN em_catalog ELSE all_platforms
          /\ db_release_components' =
                IF build_components THEN em_catalog ELSE db_release_components
          /\ recommended_db_patches' =
                IF build_recommended THEN em_catalog ELSE recommended_db_patches
          /\ ops' = ops \o (IF build_platforms THEN <<"build_platforms">> ELSE <<>>)
                        \o (IF build_components THEN <<"build_components">> ELSE <<>>)
                        \o (IF build_recommended THEN <<"process_recommendations">>
                            ELSE <<>>)
    /\ outcome' = "returned"
    /\ pc' = "idle"
    /\ UNCHANGED <<cookie_jar, status_code, login_response, hops, fatal_logged,
                   total_downloaded_bytes, download_from_file, now, catfile,
                   catfile_before, em_catalog, server_ver>>
    /\ UNCHANGED <<dlVars, ixVars, ledgerVars, normVars, sessVars, batchVars, infoVars>>

\* Between two calls a day passes.
Tick ==
    /\ pc = "idle"
    /\ now < StartTime + MaxTicks * Day
    /\ now' = now + Day
    /\ UNCHANGED <<pc, cookie_jar, status_code, login_response, hops, fatal_logged,
                   ops, outcome, total_downloaded_bytes, download_from_file,
                   catfile, catfile_before, em_catalog, server_ver, all_platforms,
                   db_release_components, recommended_db_patches>>
    /\ UNCHANGED <<dlVars, ixVars, ledgerVars, normVars, sessVars, batchVars, infoVars>>

\* Between two calls the vendor publishes a new catalog.
PublishCatalog ==
    /\ pc = "idle"
    /\ server_ver < MaxVer
    /\ server_ver' = server_ver + 1
    /\ UNCHANGED <<pc, cookie_jar, status_code, login_response, hops, fatal_logged,
                   ops, outcome, total_downloaded_bytes, download_from_file, now,
                   catfile, catfile_before, em_catalog, all_platforms,
                   db_release_components, recommended_db_patches>>
    /\ UNCHANGED <<dlVars, ixVars, ledgerVars, normVars, sessVars, batchVars, infoVars>>

(***************************************************************************)
(* The download operations as calls on the downloader, between two calls   *)
(* of initialize_downloader: what each reads of the session and of the     *)
(* indices, and which requests it sends.  The loops over the files are     *)
(* modelled further down.                                                   *)
(***************************************************************************)

\* Truth value of self.__cookie_jar: None and a jar without cookies are false.
JarTruthy(jar) == jar # None /\ \E n \in CookieNames : jar[1][n] # NoCookie

\* A request sent with cookies=self.__cookie_jar.
Request(kind) == <<kind, authenticated>>

\* get_patch_info, lines 474-480: the search request is sent whatever the
\* session is.
GetPatchInfo ==
    /\ pc = "idle"
    /\ sent' = sent \cup {Request("patch_metadata")}
    /\ UNCHANGED <<authenticated, consulted>>
    /\ UNCHANGED <<initVars, dlVars, ixVars, ledgerVars, normVars, batchVars, infoVars>>

\* download_patch_files, lines 548-563: get_patch_info, then __download_link
\* for every file it returned.
DownloadPatchFiles ==
    /\ pc = "idle"
    /\ \E has_files \in BOOLEAN :
        sent' = sent \cup {Request("patch_metadata")}
                     \cup (IF has_files THEN {Request("file")} ELSE {})
    /\ UNCHANGED <<authenticated, consulted>>
    /\ UNCHANGED <<initVars, dlVars, ixVars, ledgerVars, normVars, batchVars, infoVars>>

\* download_oracle_patch, lines 181-204 with 574-601 and 713-740: it returns
\* 1 without a truthy cookie jar, and fails with TypeError on the loop of
\* line 583 without a platform index; else it sends a search request, and
\* for every link found a digest request when the link names an aru, and the
\* file request.
DownloadOraclePatch ==
    /\ pc = "idle"
    /\ IF ~JarTruthy(cookie_jar) \/ all_platforms = None
       THEN UNCHANGED sent
       ELSE \E links \in {"none", "plain", "aru"} :
                sent' = sent \cup {Request("patch_metadata")}
                    \cup (IF links # "none" THEN {Request("file")} ELSE {})
                    \cup (IF links = "aru" THEN {Request("checksum_lookup")} ELSE {})
    /\ UNCHANGED <<authenticated, consulted>>
    /\ UNCHANGED <<initVars, dlVars, ixVars, ledgerVars, normVars, batchVars, infoVars>>

\* download_oracle_quarter_patches, lines 245-323: the loop of line 251 reads
\* the recommendation index first, and fails with TypeError when it is None;
\* else it reads the platform, the release-component and the patch index
\* (built with the recommendation index, lines 873-876), and fetches the
\* files selected.
DownloadOracleQuarterPatches ==
    /\ pc = "idle"
    /\ IF recommended_db_patches = None
       THEN /\ consulted' = consulted \cup {<<"recommendations", None>>}
            /\ UNCHANGED sent
       ELSE /\ consulted' = consulted \cup
                    {<<"recommendations", recommended_db_patches>>,
                     <<"platforms", all_platforms>>,
                     <<"release_components", db_release_components>>,
                     <<"patches", recommended_db_patches>>}
            /\ \E has_files \in BOOLEAN :
                sent' = sent \cup (IF has_files THEN {Request("file")} ELSE {})
    /\ UNCHANGED authenticated
    /\ UNCHANGED <<initVars, dlVars, ixVars, ledgerVars, normVars, batchVars, infoVars>>

\* list_platforms, lines 131-152: aru_platforms.xml of the expanded catalog
\* is parsed and a new dict is returned; without the expanded catalog the
\* parse raises.  No attribute of the downloader is read or written.
ListPlatforms ==
    /\ pc = "idle"
    /\ em_catalog # None
    /\ consulted' = consulted \cup {<<"aru_platforms.xml", em_catalog>>}
    /\ UNCHANGED <<authenticated, sent>>
    /\ UNCHANGED <<initVars, dlVars, ixVars, ledgerVars, normVars, batchVars, infoVars>>

NextSession ==
    \/ InitializeDownloader
    \/ LogonFirstRequest
    \/ LogonRequestRaises
    \/ LogonUnauthorized
    \/ LogonRedirect
    \/ LogonOk
    \/ LogonUnexpected
    \/ LogonReturned
    \/ EnsureCatalog
    \/ CatalogDownloadRaises
    \/ BuildIndices
    \/ GetPatchInfo
    \/ DownloadPatchFiles
    \/ DownloadOraclePatch
    \/ DownloadOracleQuarterPatches
    \/ ListPlatforms

Next ==
    \/ InitializeDownloader
    \/ LogonFirstRequest
    \/ LogonRequestRaises
    \/ LogonUnauthorized
    \/ LogonRedirect
    \/ LogonOk
    \/ LogonUnexpected
    \/ LogonReturned
    \/ EnsureCatalog
    \/ CatalogDownloadRaises
    \/ BuildIndices
    \/ Tick
    \/ PublishCatalog

(***************************************************************************)
(* The batch operations: download_oracle_quarter_patches,                  *)
(* download_oracle_patch and download_patch_files.                         *)
(***************************************************************************)
\* re.search(pattern, text), line 353: the pattern matches at some position
\* of the text.  A pattern is a sequence of characters, "." matching any
\* character.
ReSearch(pattern, text) ==
    \E i \in 0..(Len(text) - Len(pattern)) :
        \A j \in 1..Len(pattern) : pattern[j] = "." \/ pattern[j] = text[i + j]

\* __is_expression_ignored, lines 341-357
IsExpressionIgnored(ignored_expressions, expression) ==
    \E k \in 1..Len(ignored_expressions) :
        ReSearch(ignored_expressions[k], expression)

\* The ignored_releases and ignored_description_words arguments.
IgnoredReleaseChoices ==
    {<<>>, << <<"1", "2">> >>, << <<"9", ".">> >>, << <<"3">>, <<"1", ".">> >>}
IgnoredDescriptionChoices == {<<>>, << <<"G", "I">> >>, << <<"R", "U">> >>}

\* str.upper() of the access levels of the catalog.
AccessUpper(access_level) ==
    IF access_level = "Password Protected" THEN "PASSWORD PROTECTED"
    ELSE IF access_level = "Open access" THEN "OPEN ACCESS"
    ELSE access_level

\* The patch indices __process_patch_recommendations leaves: U1 is open, U2
\* is absent, open, password protected, or has an empty access child.
BatchPatchElem(uid, access_text) ==
    [uid |-> uid, platform |-> Some("P1"), release |-> "19.0.0.0.0",
     access |-> Some(access_text),
     files |-> <<[name |-> "p1.zip", size |-> 2,
                  digest |-> Some(<<"upper", <<0, 1>>>>)]>>,
     description |-> Abstracts[uid]]
BatchPatchIndices ==
    LET u1 == ProcessPatchElement(EmptyDict,
                                  BatchPatchElem("U1", Some("Open access")), TRUE)
    IN {u1} \cup {ProcessPatchElement(u1, BatchPatchElem("U2", a), TRUE) :
                    a \in {Some("Open access"), Some("Password Protected"), None}}

\* The recommendation indices: the keys are (component id, platform id).
BatchRecommendedIndices ==
    {MergeUids(EmptyDict, <<"C1", "P1">>, <<"U1", "U2">>),
     MergeUids(MergeUids(EmptyDict, <<"C1", "P1">>, <<"U1">>),
               <<"C2", "P1">>, <<"U2">>),
     MergeUids(MergeUids(EmptyDict, <<"C2", "P1">>, <<"U1">>),
               <<"C1", "P1">>, <<"U1", "U2">>)}

\* The links of download_oracle_patch and the files get_patch_info returns.
MaxLinks == 2
LinkLists == SeqsUpTo({"p1.zip", "p2.zip"}, MaxLinks)

\* The ways a call of __download_link ends, lines 637-673: requests.get or
\* the read of a chunk raises a RequestException, open or write an OSError,
\* the call of an absent progress function a TypeError, line 670 a
\* ChecksumMismatch.  A dry run returns at line 649, after the request.
FetchOutcomes(dry_run_mode) ==
    IF dry_run_mode THEN {"return", "RequestException"}
    ELSE {"return", "ChecksumMismatch", "RequestException", "OSError", "TypeError"}

\* except ChecksumMismatch, lines 205, 310 and 564: no other clause.
FetchCaught(fetch) == fetch = "ChecksumMismatch"

\* The indices are built, the session is absent or open.
InitBatch ==
    /\ pc = "idle"
    /\ cookie_jar \in {None, Some([n \in CookieNames |-> "a"])}
    /\ status_code = 0
    /\ login_response = <<>>
    /\ hops = <<>>
    /\ fatal_logged = 0
    /\ ops = <<>>
    /\ outcome = "none"
    /\ total_downloaded_bytes = 0
    /\ download_from_file = FALSE
    /\ now = 0
    /\ catfile = None
    /\ catfile_before = None
    /\ em_catalog = Some(1)
    /\ server_ver = 1
    /\ all_platforms = Some(1)
    /\ db_release_components = Some(1)
    /\ recommended_db_patches = Some(1)
    /\ dl_pc = "idle"
    /\ dl_args = <<>>
    /\ resp_dl = <<>>
    /\ target_file = None
    /\ total_dl = 0
    /\ chunks_read = 0
    /\ opened_wb = FALSE
    /\ progress_calls = <<>>
    /\ file_before = None
    /\ dl_result = <<>>
    /\ ix_pc = "done"
    /\ wanted_platforms = {"Linux x86-64"}
    /\ path_counter = [s \in Sections |-> 0]
    /\ open_tags = <<>>
    /\ idx_all_db_patches \in BatchPatchIndices
    /\ idx_recommended \in BatchRecommendedIndices
    /\ events = 0
    /\ listed = {}
    /\ seen_patch_platforms = {}
    /\ ledger = <<>>
    /\ ledger_before = <<>>
    /\ ledger_first = <<>>
    /\ passes = 0
    /\ run_lines = <<>>
    /\ orig_name = <<>>
    /\ normalized_name = <<>>
    /\ norm_done = TRUE
    /\ authenticated = FALSE
    /\ sent = {}
    /\ consulted = {}
    /\ b_pc = "idle"
    /\ b_args = <<>>
    /\ b_entries = <<>>
    /\ b_key = <<>>
    /\ b_uids = {}
    /\ b_files = <<>>
    /\ attempts = <<>>
    /\ desc_lines = {}
    /\ dirs = {}
    /\ b_total = 0
    /\ b_result = <<>>
    /\ info_args = <<>>
    /\ info_result = <<>>

\* The orders in which a loop visits the keys of a dict.
KeyOrders(dict) ==
    {s \in SeqsUpTo(DOMAIN dict, Cardinality(DOMAIN dict)) :
        /\ Len(s) = Cardinality(DOMAIN dict)
        /\ \A i, j \in 1..Len(s) : i # j => s[i] # s[j]}

\* download_oracle_quarter_patches is called, lines 220-250: the loop of
\* line 251 starts.
QuarterStart ==
    /\ b_pc \in {"idle", "done"}
    /\ \E dry \in BOOLEAN, rel \in IgnoredReleaseChoices,
          words \in IgnoredDescriptionChoices, order \in KeyOrders(idx_recommended) :
        /\ b_args' = [op |-> "download_oracle_quarter_patches",
                      dry_run_mode |-> dry,
                      ignored_releases |-> rel,
                      ignored_description_words |-> words,
                      links |-> <<>>]
        /\ b_entries' = order
    /\ b_pc' = "entries"
    /\ b_key' = <<>>
    /\ b_uids' = {}
    /\ b_files' = <<>>
    /\ attempts' = <<>>
    /\ desc_lines' = {}
    /\ dirs' = {}
    /\ b_total' = 0
    /\ b_result' = <<>>
    /\ UNCHANGED <<initVars, dlVars, ixVars, ledgerVars, normVars, sessVars, infoVars>>

\* lines 251-280: the next key of the recommendation index; an ignored
\* release is skipped, else the directory is made and the ledger is opened
\* for appending.
QuarterNextEntry ==
    /\ b_pc = "entries"
    /\ b_entries # <<>>
    /\ LET key == Head(b_entries)
           version == DbReleaseComponents[key[1]].version
       IN IF IsExpressionIgnored(b_args.ignored_releases, version)
          THEN UNCHANGED <<b_pc, b_key, b_uids, dirs>>
          ELSE /\ b_pc' = "patches"
               /\ b_key' = key
               /\ b_uids' = idx_recommended[key]
               /\ dirs' = dirs \cup {key}
    /\ b_entries' = Tail(b_entries)
    /\ UNCHANGED <<b_args, b_files, attempts, desc_lines, b_total, b_result>>
    /\ UNCHANGED <<initVars, dlVars, ixVars, ledgerVars, normVars, sessVars, infoVars>>

\* lines 281-299: the next uid of the key; the lookup of line 284 raises
\* KeyError for a uid that is not indexed, and line 288 AttributeError for
\* an access level of None.
QuarterNextPatch ==
    /\ b_pc = "patches"
    /\ \E patch_uid \in b_uids :
        /\ b_uids' = b_uids \ {patch_uid}
        /\ IF patch_uid \notin DOMAIN idx_all_db_patches
           THEN /\ b_pc' = "done"
                /\ b_result' = <<"KeyError">>
                /\ UNCHANGED b_files
           ELSE LET patch == idx_all_db_patches[patch_uid]
                IN IF IsExpressionIgnored(b_args.ignored_description_words,
                                          patch.description)
                   THEN UNCHANGED <<b_pc, b_result, b_files>>
                   ELSE IF patch.access_level = None
                   THEN /\ b_pc' = "done"
                        /\ b_result' = <<"AttributeError">>
                        /\ UNCHANGED b_files
                   ELSE IF AccessUpper(patch.access_level[1]) = "PASSWORD PROTECTED"
                   THEN UNCHANGED <<b_pc, b_result, b_files>>
                   ELSE /\ b_files' = [i \in 1..Len(patch.files) |->
                                          [item |-> <<b_key, patch_uid, i>>,
                                           size |-> patch.files[i].size]]
                        /\ b_pc' = IF patch.files = <<>> THEN "patches" ELSE "files"
                        /\ UNCHANGED b_result
    /\ UNCHANGED <<b_args, b_entries, b_key, attempts, desc_lines, dirs, b_total>>
    /\ UNCHANGED <<initVars, dlVars, ixVars, ledgerVars, normVars, sessVars, infoVars>>

\* lines 300-321: the ledger line is printed, the size is added, and the
\* file is fetched; ChecksumMismatch is logged and the loop goes on, any
\* other exception leaves the method.
QuarterNextFile ==
    /\ b_pc = "files"
    /\ b_args.op = "download_oracle_quarter_patches"
    /\ LET file == Head(b_files)
       IN /\ desc_lines' = desc_lines \cup {file.item}
          /\ b_total' = b_total + file.size
          /\ \E fetch \in FetchOutcomes(b_args.dry_run_mode) :
              /\ attempts' = Append(attempts, [item |-> file.item, outcome |-> fetch])
              /\ IF fetch = "return" \/ FetchCaught(fetch)
                 THEN /\ b_files' = Tail(b_files)
                      /\ b_pc' = IF Tail(b_files) = <<>> THEN "patches" ELSE "files"
                      /\ UNCHANGED b_result
                 ELSE /\ b_pc' = "done"
                      /\ b_result' = <<fetch>>
                      /\ UNCHANGED b_files
    /\ UNCHANGED <<b_args, b_entries, b_key, b_uids, dirs>>
    /\ UNCHANGED <<initVars, dlVars, ixVars, ledgerVars, normVars, sessVars, infoVars>>

\* line 323: the with block of a key ends.
QuarterEndEntry ==
    /\ b_pc = "patches"
    /\ b_uids = {}
    /\ b_pc' = "entries"
    /\ b_key' = <<>>
    /\ UNCHANGED <<b_args, b_entries, b_uids, b_files, attempts, desc_lines,
                   dirs, b_total, b_result>>
    /\ UNCHANGED <<initVars, dlVars, ixVars, ledgerVars, normVars, sessVars, infoVars>>

\* lines 325-327: the ledgers are deduplicated and the total is returned.
QuarterReturn ==
    /\ b_pc = "entries"
    /\ b_entries = <<>>
    /\ b_pc' = "done"
    /\ b_result' = <<"return", b_total>>
    /\ UNCHANGED <<b_args, b_entries, b_key, b_uids, b_files, attempts,
                   desc_lines, dirs, b_total>>
    /\ UNCHANGED <<initVars, dlVars, ixVars, ledgerVars, normVars, sessVars, infoVars>>

\* download_oracle_patch, lines 181-194, and download_patch_files, lines
\* 548-551, are called: the first returns 1 without a truthy cookie jar,
\* else the list of links or files is built.
ListStart ==
    /\ b_pc \in {"idle", "done"}
    /\ \E op \in {"download_oracle_patch", "download_patch_files"},
          dry \in BOOLEAN, links \in LinkLists :
        /\ b_args' = [op |-> op,
                      dry_run_mode |-> dry,
                      ignored_releases |-> <<>>,
                      ignored_description_words |-> <<>>,
                      links |-> links]
        /\ IF op = "download_oracle_patch" /\ ~JarTruthy(cookie_jar)
           THEN /\ b_pc' = "done"
                /\ b_result' = <<"return", 1>>
                /\ b_files' = <<>>
           ELSE /\ b_pc' = "files"
                /\ b_result' = <<>>
                /\ b_files' = [i \in 1..Len(links) |->
                                  [item |-> <<"link", i>>, size |-> 1]]
    /\ b_entries' = <<>>
    /\ b_key' = <<>>
    /\ b_uids' = {}
    /\ attempts' = <<>>
    /\ desc_lines' = {}
    /\ dirs' = {}
    /\ b_total' = 0
    /\ UNCHANGED <<initVars, dlVars, ixVars, ledgerVars, normVars, sessVars, infoVars>>

\* lines 195-216 and 552-571: the next link or file is fetched, the digest
\* lookup of line 197 inside the same try; the returned size is added;
\* ChecksumMismatch is logged and the loop goes on, any other exception
\* leaves the method.
ListNextFile ==
    /\ b_pc = "files"
    /\ b_args.op # "download_oracle_quarter_patches"
    /\ b_files # <<>>
    /\ LET file == Head(b_files)
       IN \E fetch \in FetchOutcomes(b_args.dry_run_mode) :
              /\ attempts' = Append(attempts, [item |-> file.item, outcome |-> fetch])
              /\ IF fetch = "return" \/ FetchCaught(fetch)
                 THEN /\ b_files' = Tail(b_files)
                      /\ b_total' = IF fetch = "return" THEN b_total + file.size
                                    ELSE b_total
                      /\ UNCHANGED <<b_pc, b_result>>
                 ELSE /\ b_pc' = "done"
                      /\ b_result' = <<fetch>>
                      /\ UNCHANGED <<b_files, b_total>>
    /\ UNCHANGED <<b_args, b_entries, b_key, b_uids, desc_lines, dirs>>
    /\ UNCHANGED <<initVars, dlVars, ixVars, ledgerVars, normVars, sessVars, infoVars>>

\* lines 218 and 572: the total is returned.
ListReturn ==
    /\ b_pc = "files"
    /\ b_args.op # "download_oracle_quarter_patches"
    /\ b_files = <<>>
    /\ b_pc' = "done"
    /\ b_result' = <<"return", b_total>>
    /\ UNCHANGED <<b_args, b_entries, b_key, b_uids, b_files, attempts,
                   desc_lines, dirs, b_total>>
    /\ UNCHANGED <<initVars, dlVars, ixVars, ledgerVars, normVars, sessVars, infoVars>>

NextBatch ==
    \/ QuarterStart
    \/ QuarterNextEntry
    \/ QuarterNextPatch
    \/ QuarterNextFile
    \/ QuarterEndEntry
    \/ QuarterReturn
    \/ ListStart
    \/ ListNextFile
    \/ ListReturn

(***************************************************************************)
(* Repeated runs of download_oracle_quarter_patches over one ledger.       *)
(***************************************************************************)
MaxRunLines == 2

\* The lines of a sequence, each with its line break, as print() writes
\* them.
RECURSIVE PrintLines(_)
PrintLines(lines) ==
    IF lines = <<>> THEN <<>>
    ELSE Head(lines) \o <<NL>> \o PrintLines(Tail(lines))

\* A description.txt below target_dir, whoever wrote it, and the lines one
\* run with the given indices and filters prints to it: none when every
\* patch of the entry is skipped, or when the ledger belongs to another
\* directory.
InitRuns ==
    /\ pc = "idle"
    /\ cookie_jar = None
    /\ status_code = 0
    /\ login_response = <<>>
    /\ hops = <<>>
    /\ fatal_logged = 0
    /\ ops = <<>>
    /\ outcome = "none"
    /\ total_downloaded_bytes = 0
    /\ download_from_file = FALSE
    /\ now = 0
    /\ catfile = None
    /\ catfile_before = None
    /\ em_catalog = None
    /\ server_ver = 1
    /\ all_platforms = None
    /\ db_release_components = None
    /\ recommended_db_patches = None
    /\ dl_pc = "idle"
    /\ dl_args = <<>>
    /\ resp_dl = <<>>
    /\ target_file = None
    /\ total_dl = 0
    /\ chunks_read = 0
    /\ opened_wb = FALSE
    /\ progress_calls = <<>>
    /\ file_before = None
    /\ dl_result = <<>>
    /\ ix_pc = "done"
    /\ path_counter = [s \in Sections |-> 0]
    /\ open_tags = <<>>
    /\ idx_all_db_patches = EmptyDict
    /\ idx_recommended = EmptyDict
    /\ events = 0
    /\ listed = {}
    /\ seen_patch_platforms = {}
    /\ wanted_platforms = {}
    /\ ledger \in SeqsUpTo(LedgerChars, MaxLedgerLen)
    /\ ledger_before = <<>>
    /\ ledger_first = <<>>
    /\ passes = 0
    /\ run_lines \in SeqsUpTo(LedgerLines, MaxRunLines)
    /\ orig_name = <<>>
    /\ normalized_name = <<>>
    /\ norm_done = TRUE
    /\ authenticated = FALSE
    /\ sent = {}
    /\ consulted = {}
    /\ b_pc = "idle"
    /\ b_args = <<>>
    /\ b_entries = <<>>
    /\ b_key = <<>>
    /\ b_uids = {}
    /\ b_files = <<>>
    /\ attempts = <<>>
    /\ desc_lines = {}
    /\ dirs = {}
    /\ b_total = 0
    /\ b_result = <<>>
    /\ info_args = <<>>
    /\ info_result = <<>>

\* One run of download_oracle_quarter_patches that returns, lines 272-327:
\* the ledger is opened for appending, the lines of the run are printed, and
\* at the end the ledger is rewritten without duplicate lines.
QuarterRunOnLedger ==
    /\ passes < MaxPasses
    /\ ledger' = RemoveDuplicateLinesOf(ledger \o PrintLines(run_lines))
    /\ ledger_before' = IF passes = 0 THEN ledger ELSE ledger_before
    /\ ledger_first' = IF passes = 0 THEN ledger' ELSE ledger_first
    /\ passes' = passes + 1
    /\ UNCHANGED run_lines
    /\ UNCHANGED <<initVars, dlVars, ixVars, normVars, sessVars, batchVars, infoVars>>

(***************************************************************************)
(* get_patch_info (src lines 457-528).                                     *)
(***************************************************************************)
\* The digest children of a file element of the search response: none, a
\* SHA-1 digest, a SHA-256 digest, or both.
InfoDigestLists ==
    {<<>>,
     <<[type |-> "SHA-1", text |-> "s1"]>>,
     <<[type |-> "SHA-256", text |-> "d1"]>>,
     <<[type |-> "SHA-1", text |-> "s2"], [type |-> "SHA-256", text |-> "d2"]>>}
InfoFileElems ==
    {[name |-> "p.zip", host |-> "h", path |-> "/p.zip", digests |-> ds] :
        ds \in InfoDigestLists}

MaxInfoFiles == 2
InfoVersions == {<<"1", "9", ".", "3">>, <<"1", "2", ".", "2">>}
InfoVersionArgs == {<<>>, <<"1", "9">>}

\* The patch elements of the response, and the responses: one patch, or a
\* patch of the wanted platform with one digested file followed by a patch.
InfoPatches ==
    {[platform |-> pl, version |-> v, files |-> fs] :
        pl \in PlatformIds, v \in InfoVersions,
        fs \in SeqsUpTo(InfoFileElems, MaxInfoFiles)}
InfoFirstPatch ==
    [platform |-> "P1", version |-> <<"1", "9", ".", "3">>,
     files |-> <<[name |-> "q.zip", host |-> "h", path |-> "/q.zip",
                  digests |-> <<[type |-> "SHA-256", text |-> "d0"]>>]>>]
InfoResponses ==
    {<<p>> : p \in InfoPatches} \cup {<<InfoFirstPatch, p>> : p \in InfoPatches}

\* str.startswith
StartsWith(text, prefix) ==
    Len(prefix) <= Len(text) /\ SubSeq(text, 1, Len(prefix)) = prefix

\* lines 503-504: the patch is of the platform and the version asked for
InfoPatchMatches(patch, platform, version) ==
    patch.platform = platform /\ StartsWith(patch.version, version)

\* lines 514-516: the local patch_sha after the digests of one file; it is
\* assigned only by a digest of type SHA-256, and keeps the value it had.
\* None is the unbound local.
RECURSIVE ShaAfterDigests(_, _)
ShaAfterDigests(patch_sha, digests) ==
    IF digests = <<>> THEN patch_sha
    ELSE ShaAfterDigests(IF Head(digests).type = "SHA-256"
                         THEN Some(Head(digests).text) ELSE patch_sha,
                         Tail(digests))

\* lines 508-524, the files of one matching patch: the state is the local
\* patch_sha, the downloads list, and whether line 520 read patch_sha
\* unbound.
RECURSIVE InfoFiles(_, _)
InfoFiles(files, state) ==
    IF files = <<>> \/ state.failed THEN state
    ELSE LET file == Head(files)
             patch_sha == ShaAfterDigests(state.patch_sha, file.digests)
         IN IF patch_sha = None
            THEN [state EXCEPT !.failed = TRUE]
            ELSE InfoFiles(Tail(files),
                           [patch_sha |-> patch_sha,
                            downloads |-> Append(state.downloads,
                                                 [url |-> <<file.host, file.path>>,
                                                  sha |-> patch_sha[1],
                                                  name |-> file.name]),
                            failed |-> FALSE])

\* lines 493-527: for patch in root.iter("patch")
RECURSIVE InfoPatchLoop(_, _, _, _)
InfoPatchLoop(patches, platform, version, state) ==
    IF patches = <<>> \/ state.failed THEN state
    ELSE InfoPatchLoop(Tail(patches), platform, version,
                       IF InfoPatchMatches(Head(patches), platform, version)
                       THEN InfoFiles(Head(patches).files, state)
                       ELSE state)

\* get_patch_info, lines 470-528
GetPatchInfoOf(response, platform, version) ==
    LET end == InfoPatchLoop(response, platform, version,
                             [patch_sha |-> None, downloads |-> <<>>,
                              failed |-> FALSE])
    IN IF end.failed THEN [status |-> "UnboundLocalError", downloads |-> <<>>]
       ELSE [status |-> "return", downloads |-> end.downloads]

InitPatchInfo ==
    /\ pc = "idle"
    /\ cookie_jar = None
    /\ status_code = 0
    /\ login_response = <<>>
    /\ hops = <<>>
    /\ fatal_logged = 0
    /\ ops = <<>>
    /\ outcome = "none"
    /\ total_downloaded_bytes = 0
    /\ download_from_file = FALSE
    /\ now = 0
    /\ catfile = None
    /\ catfile_before = None
    /\ em_catalog = None
    /\ server_ver = 1
    /\ all_platforms = None
    /\ db_release_components = None
    /\ recommended_db_patches = None
    /\ dl_pc = "idle"
    /\ dl_args = <<>>
    /\ resp_dl = <<>>
    /\ target_file = None
    /\ total_dl = 0
    /\ chunks_read = 0
    /\ opened_wb = FALSE
    /\ progress_calls = <<>>
    /\ file_before = None
    /\ dl_result = <<>>
    /\ ix_pc = "done"
    /\ path_counter = [s \in Sections |-> 0]
    /\ open_tags = <<>>
    /\ idx_all_db_patches = EmptyDict
    /\ idx_recommended = EmptyDict
    /\ events = 0
    /\ listed = {}
    /\ seen_patch_platforms = {}
    /\ wanted_platforms = {}
    /\ ledger = <<>>
    /\ ledger_before = <<>>
    /\ ledger_first = <<>>
    /\ passes = 0
    /\ run_lines = <<>>
    /\ orig_name = <<>>
    /\ normalized_name = <<>>
    /\ norm_done = TRUE
    /\ authenticated = FALSE
    /\ sent = {}
    /\ consulted = {}
    /\ b_pc = "idle"
    /\ b_args = <<>>
    /\ b_entries = <<>>
    /\ b_key = <<>>
    /\ b_uids = {}
    /\ b_files = <<>>
    /\ attempts = <<>>
    /\ desc_lines = {}
    /\ dirs = {}
    /\ b_total = 0
    /\ b_result = <<>>
    /\ \E response \in InfoResponses, version \in InfoVersionArgs :
          info_args = [response |-> response, platform |-> "P1",
                       version |-> version]
    /\ info_result = <<>>

\* The call of get_patch_info with the response of the search request.
GetPatchInfoCall ==
    /\ info_result = <<>>
    /\ info_result' = GetPatchInfoOf(info_args.response, info_args.platform,
                                     info_args.version)
    /\ UNCHANGED info_args
    /\ UNCHANGED <<initVars, dlVars, ixVars, ledgerVars, normVars, sessVars,
                   batchVars>>

(***************************************************************************)
(* The specifications.  Each initial predicate gives the variables of the  *)
(* other parts the values they keep throughout.                            *)
(***************************************************************************)
Spec == Init /\ [][Next]_vars
SpecSession == Init /\ [][NextSession]_vars
SpecDownload == InitDownload /\ [][NextDownload]_vars
SpecIndex == InitIndex /\ [][NextIndex]_vars
SpecLedger == InitLedger /\ [][NextLedger]_vars
SpecNormalize == InitNormalize /\ [][NormalizeCall]_vars
SpecBatch == InitBatch /\ [][NextBatch]_vars
SpecRuns == InitRuns /\ [][QuarterRunOnLedger]_vars
SpecPatchInfo == InitPatchInfo /\ [][GetPatchInfoCall]_vars

(***************************************************************************)
(* The claims.                                                             *)
(***************************************************************************)
Max(S) == CHOOSE x \in S : \A y \in S : y <= x

\* ---- the verified downloader, under SpecDownload

\* The SHA-256 of the destination file equals the expected checksum, letter
\* case aside.
ChecksumMatches ==
    /\ target_file # None
    /\ Upper(dl_args.oracle_file_checksum[1]) = Upper(HexDigest(target_file[1]))

\* The destination file after the call is the file found (no transfer) or
\* the body received (a transfer): it was neither deleted nor cut.
FileKept ==
    /\ target_file # None
    /\ target_file = IF opened_wb THEN Some(resp_dl.body) ELSE file_before

\* C1: a non-dry-run call with a non-empty expected checksum returns normally
\* only if the SHA-256 of the destination file equals that checksum, and
\* otherwise raises ChecksumMismatch and leaves the file in place; a call
\* with an absent or empty checksum never raises ChecksumMismatch.
C1_ReturnsOnlyVerified ==
    dl_pc = "done" /\ ~dl_args.dry_run_mode =>
        IF Truthy(dl_args.oracle_file_checksum)
        THEN /\ dl_result[1] = "return" => ChecksumMatches
             /\ ~ChecksumMatches => dl_result[1] = "ChecksumMismatch" /\ FileKept
        ELSE dl_result[1] # "ChecksumMismatch"

\* C2: in a non-dry-run fetch that finds a file of the derived name with the
\* declared size, no chunk of the body is read, the file is not opened for
\* writing, and completion is reported by the single progress notification
\* (name, size, size).
C2_SkipOnMatch ==
    /\ dl_pc \in {"written", "done"}
    /\ ~dl_args.dry_run_mode
    /\ CheckFileExists(file_before, FileSize)
    => /\ chunks_read = 0
       /\ ~opened_wb
       /\ progress_calls = <<<<dl_args.url.name, FileSize, FileSize>>>>

\* ---- the logon and the catalog, under Spec

\* C3: after a login chain that ends in 200 the cookie jar holds, for every
\* cookie name, the value the last hop that set it gave it, and no cookie
\* when no hop set it: the union of the hops' cookies, merged in hop order.
C3_JarIsUnionOfHops ==
    pc = "logged_on" /\ status_code = OK =>
        /\ cookie_jar # None
        /\ \A n \in CookieNames :
            LET setters == {i \in 1..Len(hops) : hops[i][n] # NoCookie}
            IN cookie_jar[1][n] =
                IF setters = {} THEN NoCookie ELSE hops[Max(setters)][n]

\* A chain of three responses in which a later hop replaces a cookie of an
\* earlier one and keeps another the later hops do not set.
C3_Witness ==
    /\ pc = "logged_on"
    /\ status_code = OK
    /\ Len(hops) = 3
    /\ hops[1]["sid"] = "a" /\ hops[1]["tok"] = "a"
    /\ hops[2]["sid"] = "b" /\ hops[2]["tok"] = NoCookie
    /\ hops[3]["tok"] = NoCookie
    /\ cookie_jar[1]["sid"] = "b"
    /\ cookie_jar[1]["tok"] = "a"

CatalogDownloaded == \E i \in 1..Len(ops) : ops[i] = "download_catalog"
CatalogExtracted == \E i \in 1..Len(ops) : ops[i] = "extract"

\* C7: initialize_downloader downloads and extracts the archive exactly when
\* it was missing or its modification time was more than 24 hours before the
\* current time; otherwise it downloads and extracts nothing and returns 0.
C7_CatalogRefreshPolicy ==
    /\ pc = "indices" =>
        LET refresh == \/ catfile_before = None
                       \/ now - catfile_before[1].mtime > 24 * Hour
        IN /\ CatalogDownloaded <=> refresh
           /\ CatalogExtracted <=> refresh
           /\ ~refresh => total_downloaded_bytes = 0 /\ catfile = catfile_before
    /\ pc = "idle" /\ outcome = "returned" /\ ~CatalogDownloaded =>
        total_downloaded_bytes = 0

\* The archive was 25 hours old and has been downloaded and extracted again.
C7_Witness ==
    /\ pc = "indices"
    /\ catfile_before # None
    /\ now - catfile_before[1].mtime = 25 * Hour
    /\ CatalogDownloaded
    /\ CatalogExtracted
    /\ catfile[1].mtime = now

\* C9: once a response of the login chain had status 401, the call has
\* raised OracleSupportError, the cookie jar is None, and the call made no
\* catalog download, extraction or indexing step.
C9_UnauthorizedAborts ==
    status_code = UNAUTHORIZED /\ pc # "loop" =>
        /\ pc = "idle"
        /\ outcome = "OracleSupportError"
        /\ cookie_jar = None
        /\ \A i \in 1..Len(ops) : ops[i] = "login_request"

\* The 401 came after two redirects.
C9_Witness ==
    /\ status_code = UNAUTHORIZED
    /\ pc = "idle"
    /\ outcome = "OracleSupportError"
    /\ Len(ops) = 3

\* C10: once a login response with a status other than 200, 301, 302, 307
\* and 401 has been handled, the login procedure has stopped with the fatal
\* authentication failure.
C10_UnexpectedStatusIsFatal ==
    fatal_logged > 0 => pc = "idle" /\ outcome = "OracleSupportError"

\* ---- the indexer, under SpecIndex

\* C4: after every event, every record of the patch index has a platform
\* code that is a key of the wanted-platforms dict.
C4_RetainedPlatformsWanted ==
    \A uid \in DOMAIN idx_all_db_patches :
        idx_all_db_patches[uid].platform_code \in DOMAIN AllPlatforms

\* The document held patch elements of a wanted and of an unwanted platform,
\* and the index holds a record.
C4_Witness ==
    /\ ix_pc = "done"
    /\ DOMAIN idx_all_db_patches # {}
    /\ \E p \in seen_patch_platforms : p \in DOMAIN AllPlatforms
    /\ \E p \in seen_patch_platforms : p \notin DOMAIN AllPlatforms

ListedUids(cid, platform_id) ==
    {u \in Uids : \E s \in RecommendationSections : <<s, cid, platform_id, u>> \in listed}

\* C5: the recommendation entry of a key (cid, platform) is the set of the
\* uids listed under that release and platform in either recommendations
\* section, whatever the order of the sections, and every uid listed for a
\* tracked release and a wanted platform is in the entry of its key.
C5_RecommendationsAreUnion ==
    /\ \A key \in DOMAIN idx_recommended :
        idx_recommended[key] = ListedUids(key[1], key[2])
    /\ \A l \in listed :
        l[2] \in DOMAIN DbReleaseComponents /\ l[3] \in DOMAIN AllPlatforms =>
            /\ <<l[2], l[3]>> \in DOMAIN idx_recommended
            /\ l[4] \in idx_recommended[<<l[2], l[3]>>]

\* One uid is listed in both sections, another in the components section
\* only, and the entry holds each once.
C5_Witness ==
    /\ ix_pc = "done"
    /\ \E key \in DOMAIN idx_recommended :
        /\ <<"standalone_recommendations", key[1], key[2], "U1">> \in listed
        /\ <<"components_recommendations", key[1], key[2], "U1">> \in listed
        /\ <<"components_recommendations", key[1], key[2], "U2">> \in listed
        /\ <<"standalone_recommendations", key[1], key[2], "U2">> \notin listed
        /\ idx_recommended[key] = {"U1", "U2"}

\* ---- the description ledger, under SpecLedger

LinesSortedAndDistinct(content) ==
    LET lines == ReadLines(content)
    IN \A i \in 1..(Len(lines) - 1) : StrLess(lines[i], lines[i + 1])

\* C6: after one pass the lines of the ledger are sorted and pairwise
\* distinct, and a second pass leaves the file byte for byte as the first
\* left it, whatever the ledger held.
C6_DedupIdempotent ==
    /\ passes >= 1 => LinesSortedAndDistinct(ledger)
    /\ passes >= 2 => ledger = ledger_first

\* ---- the directory name, under SpecNormalize

OnlyAllowedChars(name) == \A i \in 1..Len(name) : name[i] \in AllowedChars

\* The name with every maximal run of characters outside the class replaced
\* by one underscore: the characters of the class stay, and of a run only
\* its first character does, as an underscore.
RunsReplaced(name) ==
    LET kept == SelectSeq([i \in 1..Len(name) |-> i],
                          LAMBDA i : \/ name[i] \in AllowedChars
                                     \/ i = 1
                                     \/ name[i - 1] \in AllowedChars)
    IN [k \in 1..Len(kept) |->
            IF name[kept[k]] \in AllowedChars THEN name[kept[k]] ELSE "_"]

NoOuterUnderscore(name) ==
    name = <<>> \/ (name[1] # "_" /\ name[Len(name)] # "_")

\* The result is the name with its runs replaced, less one trailing and then
\* one leading underscore where there is one.
OneUnderscoreStripped(name, result) ==
    \E lead \in {<<>>, <<"_">>}, trail \in {<<>>, <<"_">>} :
        LET replaced == RunsReplaced(name)
        IN /\ lead \o result \o trail = replaced
           /\ trail = <<"_">> <=> (replaced # <<>> /\ replaced[Len(replaced)] = "_")
           /\ lead = <<"_">> <=> (lead \o result # <<>> /\ (lead \o result)[1] = "_")

\* C8 as stated: the result has only characters of the class, one underscore
\* per run of other characters, and neither a leading nor a trailing
\* underscore.
C8_NoOuterUnderscore ==
    norm_done =>
        /\ OnlyAllowedChars(normalized_name)
        /\ OneUnderscoreStripped(orig_name, normalized_name)
        /\ NoOuterUnderscore(normalized_name)

\* C8, amended: the result has only characters of the class and one
\* underscore per run of other characters; one trailing and one leading
\* underscore are removed, which leaves none at either end when the name has
\* no underscore of its own; the example name gives the example directory.
C8_OneOuterUnderscoreStripped ==
    norm_done =>
        /\ OnlyAllowedChars(normalized_name)
        /\ OneUnderscoreStripped(orig_name, normalized_name)
        /\ (\A i \in 1..Len(orig_name) : orig_name[i] # "_") =>
                NoOuterUnderscore(normalized_name)
        /\ orig_name = ExampleName => normalized_name = ExampleDir

\* The example of the specification has been normalized.
C8_Witness ==
    /\ norm_done
    /\ orig_name = ExampleName
    /\ normalized_name = ExampleDir

\* ---- the session and the catalog again, under Spec

\* C11: a call that ended in the login chain, its last request being a login
\* request, has raised OracleSupportError, whether the chain met a 401 or a
\* request of it failed with a timeout or a connection error.
C11_NetworkErrorIsAuthError ==
    pc = "idle" /\ ops # <<>> /\ ops[Len(ops)] = "login_request" =>
        outcome = "OracleSupportError"

\* C14: after a call that downloaded the catalog, the archive having been
\* missing or too old, every index the downloader holds was built from the
\* catalog just downloaded.
C14_IndicesRebuilt ==
    pc = "idle" /\ outcome = "returned" /\ CatalogDownloaded =>
        /\ all_platforms = em_catalog
        /\ db_release_components = em_catalog
        /\ recommended_db_patches \in
                (IF download_from_file THEN {None, em_catalog} ELSE {em_catalog})

\* C15: in a catalog step that does not reuse the archive, an archive or an
\* expanded catalog directory found is deleted before the download, and the
\* download comes before the expansion.
C15_DeleteDownloadExpand ==
    [][pc = "catalog" /\ pc' = "indices" /\ CatalogDownloaded' =>
            /\ catfile # None \/ em_catalog # None =>
                    \E i, j \in 1..Len(ops') :
                        i < j /\ ops'[i] = "cleanup" /\ ops'[j] = "download_catalog"
            /\ \E i, j \in 1..Len(ops') :
                    i < j /\ ops'[i] = "download_catalog" /\ ops'[j] = "extract"]_vars

\* ---- the checksums, under SpecIndex and SpecDownload

\* Every digest the patch index holds is in upper case.
StoredChecksumsUppercase ==
    \A uid \in DOMAIN idx_all_db_patches :
        \A i \in 1..Len(idx_all_db_patches[uid].files) :
            idx_all_db_patches[uid].files[i].sha256sum[1] = "upper"

\* A fetch whose expected checksum is the digest of the destination file in
\* either case has returned.
CaseInsensitiveFetch ==
    /\ dl_pc = "done"
    /\ ~dl_args.dry_run_mode
    /\ dl_args.progress_function
    /\ Truthy(dl_args.oracle_file_checksum)
    /\ ChecksumMatches
    => dl_result[1] = "return"

\* C16: every sha256 the indexer stores is the upper-case form of the
\* catalog digest, and a fetch whose expected checksum equals the computed
\* SHA-256 up to letter case returns without ChecksumMismatch.
C16_ChecksumsCaseInsensitive ==
    StoredChecksumsUppercase /\ CaseInsensitiveFetch

\* C20: a dry-run call reads no chunk of the body, leaves the destination
\* file as it found it, present or absent, and returns the declared
\* content-length, 0 when none is declared; it never raises.
C20_DryRunTransfersNothing ==
    dl_pc = "done" /\ dl_args.dry_run_mode =>
        /\ chunks_read = 0
        /\ total_dl = 0
        /\ ~opened_wb
        /\ target_file = file_before
        /\ dl_result = <<"return", IF resp_dl.content_length = None THEN 0
                                   ELSE resp_dl.content_length[1]>>

\* A dry run for a file that is there with the declared size and does not
\* hash to the expected checksum, the body served being longer.
C20_Witness ==
    /\ dl_pc = "done"
    /\ dl_args.dry_run_mode
    /\ resp_dl.content_length = Some(1)
    /\ Len(resp_dl.body) = 2
    /\ file_before = Some(<<0>>)
    /\ dl_args.oracle_file_checksum = Some(<<"upper", OtherContent>>)
    /\ dl_result = <<"return", 1>>

\* ---- the session, under SpecSession

\* C12: every catalog, patch-metadata, checksum-lookup and file request was
\* sent after a logon of this downloader had succeeded.
C12_AuthenticatedBeforeFetch ==
    /\ \A r \in sent : r[2]
    /\ CatalogDownloaded => authenticated

\* C13: every index download_oracle_quarter_patches read had been built: it
\* never read an index that is None.
C13_IndicesBuiltBeforeUse ==
    \A c \in consulted : c[2] # None

\* The files of the batch that the filters select: every link of a list
\* operation; for the quarter patches the files of the indexed patches of
\* the entries whose release no ignored-release pattern matches, whose
\* description no ignored-description pattern matches and whose access
\* level is not "password protected".
SelectedEntries ==
    {key \in DOMAIN idx_recommended :
        ~IsExpressionIgnored(b_args.ignored_releases,
                             DbReleaseComponents[key[1]].version)}
SelectedPatch(uid) ==
    /\ uid \in DOMAIN idx_all_db_patches
    /\ ~IsExpressionIgnored(b_args.ignored_description_words,
                            idx_all_db_patches[uid].description)
    /\ idx_all_db_patches[uid].access_level \notin
           {Some("Password Protected"), Some("PASSWORD PROTECTED"),
            Some("password protected")}
SelectedItems ==
    IF b_args.op = "download_oracle_quarter_patches"
    THEN UNION {UNION {{<<key, uid, i>> :
                          i \in 1..Len(idx_all_db_patches[uid].files)} :
                       uid \in {u \in idx_recommended[key] : SelectedPatch(u)}} :
                key \in SelectedEntries}
    ELSE {<<"link", i>> : i \in 1..Len(b_args.links)}
Attempted == {attempts[i].item : i \in 1..Len(attempts)}
BatchReturned == b_result # <<>> /\ b_result[1] = "return"

\* C17: when a batch operation has ended after a fetch of one of its files
\* raised a network or filesystem error, it has returned normally and every
\* selected file was attempted.
C17_FetchErrorIsSkipped ==
    /\ b_pc = "done"
    /\ \E i \in 1..Len(attempts) :
          attempts[i].outcome \in {"RequestException", "OSError"}
    => BatchReturned /\ Attempted = SelectedItems

\* C18: when a batch operation has ended after a fetch of one of its files
\* raised ChecksumMismatch, it has returned normally, every selected file
\* was attempted, and the links of a list operation were attempted in the
\* order of the list.
C18_MismatchDoesNotAbort ==
    /\ b_pc = "done"
    /\ \E i \in 1..Len(attempts) : attempts[i].outcome = "ChecksumMismatch"
    => /\ BatchReturned
       /\ Attempted = SelectedItems
       /\ b_args.op # "download_oracle_quarter_patches"
            => \A i \in 1..Len(attempts) : attempts[i].item = <<"link", i>>

\* C19: when download_oracle_quarter_patches has ended, the files it
\* fetched and the files it wrote a ledger line for are exactly the selected
\* files, and a directory and a ledger exist only for the entries whose
\* release is not ignored.
C19_FetchedExactlyEligible ==
    b_pc = "done" /\ b_args.op = "download_oracle_quarter_patches"
    => /\ Attempted = SelectedItems
       /\ desc_lines = SelectedItems
       /\ dirs \subseteq SelectedEntries

\* C21: when download_oracle_quarter_patches has ended on a patch index
\* that holds a record with an absent access level, it has not failed on
\* that access level.
C21_AbsentAccessTolerated ==
    /\ b_pc = "done"
    /\ b_args.op = "download_oracle_quarter_patches"
    /\ \E uid \in DOMAIN idx_all_db_patches :
          idx_all_db_patches[uid].access_level = None
    => b_result[1] # "AttributeError"

\* C22: an event changes the patch index only while the "patches" counter
\* is positive, and the recommendation index only while the counter of a
\* recommendations section is positive.
C22_GuardedBySectionCounters ==
    [][/\ idx_all_db_patches' # idx_all_db_patches => path_counter["patches"] > 0
       /\ idx_recommended' # idx_recommended
            => \E s \in RecommendationSections : path_counter[s] > 0]_vars

\* The document is processed and each index was changed inside its section.
C22_Witness ==
    /\ ix_pc = "done"
    /\ events = MaxElements
    /\ DOMAIN idx_all_db_patches # {}
    /\ DOMAIN idx_recommended # {}

\* C23: after every event each section counter is the number of open
\* elements with the section's tag, it is not negative, and it is 0 once
\* the document is processed.
C23_CountersMatchOpenSections ==
    \A s \in Sections :
        /\ path_counter[s] = Cardinality({i \in 1..Len(open_tags) : open_tags[i] = s})
        /\ path_counter[s] >= 0
        /\ ix_pc = "done" => path_counter[s] = 0

\* A document with a patches section that held a wanted patch is processed.
C23_Witness ==
    /\ ix_pc = "done"
    /\ DOMAIN idx_all_db_patches # {}
    /\ \A s \in Sections : path_counter[s] = 0

\* C24: after every event, every key of the recommendation index has a
\* component id that is a key of the release-component index and a platform
\* code that is a key of the wanted-platforms dict.
C24_RecommendationKeysResolvable ==
    \A key \in DOMAIN idx_recommended :
        /\ key[1] \in DOMAIN DbReleaseComponents
        /\ key[2] \in DOMAIN AllPlatforms

\* A recommendations section listed a release of a component that is not
\* tracked, or a platform that is not wanted, and the index has a key.
C24_Witness ==
    /\ DOMAIN idx_recommended # {}
    /\ \E l \in listed : \/ l[2] \notin DOMAIN DbReleaseComponents
                          \/ l[3] \notin DOMAIN AllPlatforms

\* ---- repeated runs, under SpecRuns

\* C25: after a second run of download_oracle_quarter_patches with the same
\* indices and filters the ledger is byte for byte what the first run left,
\* with every line present once.
C25_RunsIdempotentOnLedger ==
    passes >= 2 => ledger = ledger_first /\ LinesSortedAndDistinct(ledger)

\* ---- the session and the indices, under SpecSession

\* The session is open, the archive is fresh and every index is built.
Settled ==
    /\ cookie_jar # None
    /\ catfile # None
    /\ catfile[1].mtime >= now - Day
    /\ all_platforms # None
    /\ db_release_components # None
    /\ recommended_db_patches # None

\* C26: get_patch_info, download_patch_files, download_oracle_patch,
\* download_oracle_quarter_patches and list_platforms leave the cookie jar and the indices as
\* they are, and while the session is open, the archive fresh and every
\* index built, no step of initialize_downloader changes the jar, the
\* indices or the catalog, or sends a request.
C26_WrittenOnce ==
    [][/\ pc = "idle" /\ pc' = "idle"
            => UNCHANGED <<cookie_jar, all_platforms, db_release_components,
                           recommended_db_patches>>
       /\ Settled
            => /\ UNCHANGED <<cookie_jar, all_platforms, db_release_components,
                              recommended_db_patches, catfile, em_catalog>>
               /\ ops' = ops \/ ops' = <<>>]_vars

\* A repeated initialize_downloader returned without a step of its own,
\* and requests of the other operations were sent.
C26_Witness ==
    /\ pc = "idle"
    /\ outcome = "returned"
    /\ ops = <<>>
    /\ Settled
    /\ sent # {}

\* ---- get_patch_info, under SpecPatchInfo

\* The file elements of the patches of the response that match, in
\* document order.
RECURSIVE InfoSelectedFiles(_)
InfoSelectedFiles(patches) ==
    IF patches = <<>> THEN <<>>
    ELSE (IF InfoPatchMatches(Head(patches), info_args.platform, info_args.version)
          THEN Head(patches).files ELSE <<>>)
         \o InfoSelectedFiles(Tail(patches))

\* The texts of the SHA-256 digest children of a file element.
OwnSha256(file) ==
    {file.digests[i].text : i \in {j \in 1..Len(file.digests) :
                                      file.digests[j].type = "SHA-256"}}

\* C27: in the list get_patch_info returned, the sha of every entry is the
\* text of the SHA-256 digest child of the file element the entry was made
\* from.
C27_ShaIsOwnDigest ==
    info_result # <<>> /\ info_result.status = "return"
    => LET files == InfoSelectedFiles(info_args.response)
       IN /\ Len(info_result.downloads) = Len(files)
          /\ \A k \in 1..Len(files) :
                info_result.downloads[k].sha \in OwnSha256(files[k])

\* C28: between the calls, the cookie jar is not None only if the last
\* login chain ended with status 200.
C28_JarOnlyAfterLogon ==
    pc = "idle" /\ cookie_jar # None => authenticated /\ status_code = OK

\* C29: once the document is processed, every uid of every set of the
\* recommendation index is a key of the patch index.
C29_RecommendedUidsIndexed ==
    ix_pc = "done"
    => \A key \in DOMAIN idx_recommended :
            idx_recommended[key] \subseteq DOMAIN idx_all_db_patches

\* C30: a non-dry-run call that finds the destination file with the
\* declared size, its SHA-256 differing from a non-empty expected checksum,
\* reads no chunk of the body, leaves the file as it is and raises
\* ChecksumMismatch, at every call made while the file stays.
C30_MismatchPersists ==
    /\ dl_pc = "done"
    /\ ~dl_args.dry_run_mode
    /\ CheckFileExists(file_before, FileSize)
    /\ Truthy(dl_args.oracle_file_checksum)
    /\ Upper(dl_args.oracle_file_checksum[1]) # Upper(HexDigest(file_before[1]))
    => /\ dl_result = <<"ChecksumMismatch">>
       /\ chunks_read = 0
       /\ ~opened_wb
       /\ target_file = file_before

\* C31: a non-dry-run call without a progress function does not end with
\* the TypeError of a call of None, whether the body is streamed or the
\* transfer is skipped.
C31_AbsentCallbackTolerated ==
    /\ dl_pc = "done"
    /\ ~dl_args.dry_run_mode
    /\ ~dl_args.progress_function
    => dl_result[1] # "TypeError"

====
